---- MODULE Spec2Model ----
(***************************************************************************)
(* Model of the Brother P-touch label printer driver (brother_printer.py). *)
(*                                                                         *)
(* The raster encoder convert_to_brother_raster is modelled as a process   *)
(* per caller that walks through the function body: the command preamble   *)
(* (one step), one graphics row per matrix column (one step each) and the  *)
(* final join.  Bytes are integers 0..255, byte strings are sequences.     *)
(* Python objects that are passed by reference (the matrix dict, the       *)
(* entries of TAPE_SPECS) live in state variables, so that a write to      *)
(* them by the encoder would be visible.                                   *)
(*                                                                         *)
(* feed_mm is a float in the source; the model carries it in tenths of a   *)
(* millimetre (feed_mm = feed_tenths / 10).  Every product                 *)
(* dots_per_mm * feed_mm whose exact value is an integer has a feed that   *)
(* is a multiple of 0.5 and is exact in binary floating point, so the      *)
(* truncation int() of the float product equals the truncation of the      *)
(* exact rational product for every feed of the model.                     *)
(***************************************************************************)
EXTENDS Integers, Sequences, FiniteSets, TLC

VARIABLES
    TAPE_SPECS,   \* the module-level tape catalogue (a mutable dict)
    heap,         \* matrix objects: object id -> matrix dict
    args,         \* per caller: the arguments of its call
    pc,           \* per caller: position in convert_to_brother_raster
    data,         \* per caller: the local list `data`, joined
    x,            \* per caller: the loop variable of `for x in range(w)`
    ret,          \* per caller: the returned bytes (<<>> before the return)
    exc,          \* per caller: the exception the call raised, or "none"
    device,       \* the printer as detect_tape_size meets it (its answers)
    dpc,          \* position in detect_tape_size
    media_list,   \* detect_tape_size: the local list media_list
    media_i,      \* detect_tape_size: index of `for media in media_list`
    dret,         \* detect_tape_size: the returned value ("None" for None)
    dcaught,      \* detect_tape_size: what its except clause caught, or "none"
    endpoint,     \* the print endpoint as send_via_ipp meets it (its answer)
    sargs,        \* send_via_ipp: binary, copies, printer
    spc,          \* position in send_via_ipp
    requests,     \* the requests that reached the network, in order
    sret,         \* send_via_ipp: the returned value ("None" before it returns)
    sexc,         \* send_via_ipp: the exception that left it, or "none"
    ZEROCONF_AVAILABLE,  \* whether the zeroconf import succeeded
    zc,           \* whether Zeroconf and ServiceBrowser can be set up
    printers,     \* PassivePrinterListener.printers
    announced,    \* number of listener callbacks so far
    kpc,          \* position in discover_with_passive_listening
    kret,         \* discover_with_passive_listening: the returned list
    heard,        \* the announcement of the listener's latest callback
    margs,        \* main: the command line
    environ,      \* main: BROTHER_PRINTER_IP, "None" when unset
    kit,          \* main: what labelprinterkit does ("unused" before it is met)
    mpc,          \* position in main
    printer_ip,   \* main: the local printer_ip
    tape_size,    \* main: the local tape_size
    effects,      \* main: what it has done to the outside, in order
    exit_code,    \* the exit code of the process, -1 while it runs
    job,          \* rendering: the glyph, tape, tape colour and threshold
    images,       \* rendering: the images made so far, in order
    matrices,     \* rendering: the matrices png_to_bw_matrix returned
    label_text,   \* naming: the label text
    names,        \* naming: the results of sanitize_filename, in order
    vout          \* the two other encoders: state and bytes of each call

\* The state of the encoder, of detect_tape_size, of send_via_ipp, of
\* discovery and its listener, and of main.
encVars == <<TAPE_SPECS, heap, args, pc, data, x, ret, exc>>
detVars == <<device, dpc, media_list, media_i, dret, dcaught>>
sendVars == <<endpoint, sargs, spc, requests, sret, sexc>>
discVars == <<ZEROCONF_AVAILABLE, zc, printers, announced, kpc, kret, heard>>
mainVars == <<margs, environ, kit, mpc, printer_ip, tape_size, effects, exit_code>>

\* The state of the checks of single functions: rendering, file naming and
\* the other two encoders.
renderVars == <<job, images, matrices>>
nameVars == <<label_text, names>>
pureVars == <<renderVars, nameVars, vout>>

\* What the encoder, detect_tape_size, send_via_ipp and discovery leave alone.
nonEncVars == <<detVars, sendVars, discVars, mainVars, pureVars>>
nonDetVars == <<encVars, sendVars, discVars, mainVars, pureVars>>
nonSendVars == <<encVars, detVars, discVars, mainVars, pureVars>>
nonDiscVars == <<encVars, detVars, sendVars, mainVars, pureVars>>

vars == <<encVars, detVars, sendVars, discVars, mainVars, pureVars>>

\* ---------------------------------------------------------------- bounds

\* Widest matrix (number of raster columns) drawn as an input.
MaxWidth == 2

\* Widest matrix drawn when two callers run side by side.
MaxPairWidth == 1

\* ------------------------------------------------------------- catalogue

\* Faulty variant: W9 carries the width code of W6 and W18 the pins of W24
\* plus two.
TapeCatalogue_slip ==
    [W3_5 |-> [mm |-> 35,  media_byte |-> 4,  pins |-> 24],
     W6   |-> [mm |-> 60,  media_byte |-> 6,  pins |-> 32],
     W9   |-> [mm |-> 90,  media_byte |-> 6,  pins |-> 50],
     W12  |-> [mm |-> 120, media_byte |-> 12, pins |-> 70],
     W18  |-> [mm |-> 180, media_byte |-> 18, pins |-> 130],
     W24  |-> [mm |-> 240, media_byte |-> 24, pins |-> 128]]

\* TAPE_SPECS as the module defines it; mm is kept in tenths of a millimetre.
TapeCatalogue ==
    [W3_5 |-> [mm |-> 35,  media_byte |-> 4,  pins |-> 24],
     W6   |-> [mm |-> 60,  media_byte |-> 6,  pins |-> 32],
     W9   |-> [mm |-> 90,  media_byte |-> 9,  pins |-> 50],
     W12  |-> [mm |-> 120, media_byte |-> 12, pins |-> 70],
     W18  |-> [mm |-> 180, media_byte |-> 18, pins |-> 112],
     W24  |-> [mm |-> 240, media_byte |-> 24, pins |-> 128]]

\* Brother print head has 128 pins (dots) vertically.
pins_total == 128

\* ------------------------------------------------------------ byte tools

Byte == 0..255

Zeros(n) == [i \in 1..n |-> 0]

\* Bit k of the integer b.
BitOf(b, k) == (b \div (2 ^ k)) % 2

\* b | (1 << k)
OrBit(b, k) == IF BitOf(b, k) = 1 THEN b ELSE b + 2 ^ k

\* int(n / d) for d > 0: Python's int() truncates toward zero.
TruncDiv(n, d) == IF n >= 0 THEN n \div d ELSE -((-n) \div d)

\* round(n / d) for d > 0: Python 3 rounds half to even.
PyRound(n, d) ==
    LET q == n \div d
        r == n % d
    IN  IF 2 * r < d THEN q
        ELSE IF 2 * r > d THEN q + 1
        ELSE IF q % 2 = 0 THEN q ELSE q + 1

\* ------------------------------------------------- convert_to_brother_raster

\* INVALIDATE: 400 NULL bytes.
invalidate_frame == Zeros(400)

\* INITIALIZE: ESC @.
initialize_frame == <<27, 64>>

\* SWITCH TO RASTER MODE: ESC i a 01.
raster_mode_frame == <<27, 105, 97, 1>>

\* PRINT INFORMATION: ESC i z, struct.pack("<BBBBBBBBBBBBB", ...).
print_info_frame(spec) ==
    <<27, 105, 122, 132, 0, spec.media_byte, 0, 170, 2, 0, 0, 0, 0>>

\* Faulty variant: the cut-mode frame is appended whether or not auto_cut is set.
auto_cut_always(auto_cut) == <<27, 105, 77, 64>>

\* AUTO CUT MODE: ESC i M @, appended only `if auto_cut`.
auto_cut_frame(auto_cut) == IF auto_cut THEN <<27, 105, 77, 64>> ELSE <<>>

\* Faulty variant: the cut-interval frame is left out.
cut_every_missing == <<>>

\* CUT EVERY 1 LABEL: ESC i A 01, appended unconditionally.
cut_every_frame == <<27, 105, 65, 1>>

\* Faulty variant: base 0x04, chain printing (bit 3 clear).
adv_chain(hi_res) == IF hi_res THEN 68 ELSE 4

\* Faulty variant: base 0x00, as in python_ipp_printer.py.
adv_zero_base(hi_res) == IF hi_res THEN 64 ELSE 0

\* adv = 0x0C; if hi_res: adv |= 0x40.
adv(hi_res) == IF hi_res THEN OrBit(12, 6) ELSE 12

\* ADVANCED MODE SETTINGS: ESC i K adv.
advanced_mode_frame(hi_res) == <<27, 105, 75, adv(hi_res)>>

\* dots_per_mm = 14 if hi_res else 7
dots_per_mm(hi_res) == IF hi_res THEN 14 ELSE 7

\* Faulty variant: the product is rounded instead of truncated.
margin_dots_rounded(hi_res, feed_tenths) ==
    PyRound((IF hi_res THEN 14 ELSE 7) * feed_tenths, 10)

\* margin_dots = int(dots_per_mm * feed_mm), feed_mm = feed_tenths / 10.
margin_dots(hi_res, feed_tenths) == TruncDiv(dots_per_mm(hi_res) * feed_tenths, 10)

\* struct.pack("<H", v): little-endian unsigned short; struct.error when v
\* is not in 0..65535.
pack_H(v) ==
    IF v \in 0..65535
    THEN [ok |-> TRUE, bytes |-> <<v % 256, v \div 256>>]
    ELSE [ok |-> FALSE, bytes |-> <<>>]

\* COMPRESSION MODE: M 02.
compression_frame == <<77, 2>>

\* Faulty variant: the column is not centred on the head.
blank_left_uncentered(spec) == 0

\* blank_left = (pins_total - spec["pins"]) // 2
blank_left(spec) == (pins_total - spec.pins) \div 2

\* Faulty variant: an index beyond the bytearray wraps around instead of raising.
PyIndex_wrap(i, n) == i % n

\* Index i of a bytearray of length n: negative indices count from the end,
\* anything outside -n..n-1 raises IndexError (reported as -1 here).
PyIndex(i, n) ==
    IF i >= 0 /\ i < n THEN i
    ELSE IF i < 0 /\ i >= -n THEN i + n
    ELSE -1

\* row = bytearray(20) with the header G 0x11 0x00 0x0F, indexed 0..19.
row_header == [i \in 0..19 |-> CASE i = 0 -> 71 [] i = 1 -> 17 [] i = 2 -> 0
                                 [] i = 3 -> 15 [] OTHER -> 0]

\* b with every bit of ks ORed in: the result of b |= 1 << k for each k in ks
\* (bitwise OR is idempotent and commutative, the order does not matter).
OrBits(b, ks) ==
    LET on(k) == IF BitOf(b, k) = 1 \/ k \in ks THEN 2 ^ k ELSE 0
    IN  on(0) + on(1) + on(2) + on(3) + on(4) + on(5) + on(6) + on(7)

\* One raster line: the 20 bytes of column col after `for y in range(h)`, in
\* which every set pixel of the column ORs the bit 7 - bitpos % 8 into byte
\* 4 + bitpos // 8 of row, bitpos = y + blank_left; or the IndexError of the
\* first index outside the bytearray.
raster_line(m, spec, col) ==
    LET rows == {y \in 0..(m.height - 1) : m.data[y][col] # 0}
        byte_index(y) == PyIndex(4 + ((y + blank_left(spec)) \div 8), 20)
        bit_offset(y) == 7 - ((y + blank_left(spec)) % 8)
        row == [i \in 0..19 |->
                  OrBits(row_header[i],
                         {bit_offset(y) : y \in {yy \in rows : byte_index(yy) = i}})]
    IN  IF \E y \in rows : byte_index(y) = -1
        THEN [ok |-> FALSE, bytes |-> <<>>]
        ELSE [ok |-> TRUE, bytes |-> [i \in 1..20 |-> row[i - 1]]]

\* PRINT COMMAND: CTRL-Z.
print_frame == <<26>>

\* ------------------------------------------------------- create_label_png

\* Faulty variant: the canvas is one row higher than the tape has pins.
create_label_png_tall(specs, tape_key, glyph_w, margin_px) ==
    [size |-> <<glyph_w + 2 * margin_px, specs[tape_key].pins + 1>>,
     spec |-> tape_key]

\* The canvas of create_label_png: canvas_w = glyph_w + 2 * margin_px wide and
\* canvas_h = TAPE_SPECS[tape_key]["pins"] high; the second result is the
\* catalogue entry itself.
create_label_png(specs, tape_key, glyph_w, margin_px) ==
    [size |-> <<glyph_w + 2 * margin_px, specs[tape_key].pins>>,
     spec |-> tape_key]

\* ------------------------------------------------------------------ inputs

\* Feed margins in tenths of a millimetre: negative, zero, fractional, the
\* default 2 mm, and one whose dot count overflows two bytes at 14 dots/mm.
FeedTenths == {-5, -1, 0, 5, 10, 20, 46820}

\* Matrix heights tried with a tape: a single row, the height of the image
\* create_label_png makes for the tape, and one row more than the head has.
Heights(tape_key) ==
    {1, create_label_png(TapeCatalogue, tape_key, 1, 0).size[2], pins_total + 1}

\* The rows marked in one column of a matrix of height h.
ColumnPatterns(h) == {{}, {0}, {h - 1}, {y \in 0..(h - 1) : y % 3 = 1}}

\* The matrix dict png_to_bw_matrix returns: width, height and data[y][x].
Matrix(w, h, cols) ==
    [width |-> w, height |-> h,
     data |-> [y \in 0..(h - 1) |->
                 [xx \in 0..(w - 1) |-> IF y \in cols[xx] THEN 1 ELSE 0]]]

Matrices(tape_key) ==
    UNION {UNION {{Matrix(w, h, cols) : cols \in [0..(w - 1) -> ColumnPatterns(h)]}
                  : w \in 0..MaxWidth}
           : h \in Heights(tape_key)}

\* The argument record of one call.
Call(obj, tape_key, hi_res, feed_tenths, auto_cut) ==
    [matrix |-> obj, spec |-> tape_key, hi_res |-> hi_res,
     feed_mm |-> feed_tenths, auto_cut |-> auto_cut]

\* ------------------------------------------------- detect_tape_size: data

\* Text is a sequence of one-character strings.
UpperCase == <<"A", "B", "C", "D", "E", "F", "G", "H", "I", "J", "K", "L", "M",
               "N", "O", "P", "Q", "R", "S", "T", "U", "V", "W", "X", "Y", "Z">>
LowerCase == <<"a", "b", "c", "d", "e", "f", "g", "h", "i", "j", "k", "l", "m",
               "n", "o", "p", "q", "r", "s", "t", "u", "v", "w", "x", "y", "z">>

\* str.lower(): capital letters are replaced, everything else is kept.
lower(s) ==
    [i \in 1..Len(s) |->
        IF \E k \in 1..26 : UpperCase[k] = s[i]
        THEN LowerCase[CHOOSE k \in 1..26 : UpperCase[k] = s[i]]
        ELSE s[i]]

\* Python's `pat in s` on text.
In(pat, s) ==
    \E i \in 0..(Len(s) - Len(pat)) : SubSeq(s, i + 1, i + Len(pat)) = pat

\* Faulty variant: the W18 test is made before the W9 test.
match_tape_reordered(media_str) ==
    IF In(<<"3", ".", "5">>, media_str) \/ In(<<"3", "_", "5">>, media_str)
    THEN "W3_5"
    ELSE IF In(<<"6", "x">>, media_str) \/ In(<<"6", "m", "m">>, media_str)
    THEN "W6"
    ELSE IF In(<<"1", "8", "x">>, media_str) \/ In(<<"1", "8", "m", "m">>, media_str)
    THEN "W18"
    ELSE IF In(<<"9", "x">>, media_str) \/ In(<<"9", "m", "m">>, media_str)
    THEN "W9"
    ELSE IF In(<<"1", "2", "x">>, media_str) \/ In(<<"1", "2", "m", "m">>, media_str)
    THEN "W12"
    ELSE IF In(<<"2", "4", "x">>, media_str) \/ In(<<"2", "4", "m", "m">>, media_str)
    THEN "W24"
    ELSE "None"

\* Lines 461-472: the if/elif chain over one lower-cased descriptor; "None"
\* when no branch returns.
match_tape(media_str) ==
    IF In(<<"3", ".", "5">>, media_str) \/ In(<<"3", "_", "5">>, media_str)
    THEN "W3_5"
    ELSE IF \/ In(<<"6", "x">>, media_str)
            \/ In(<<"6", "m", "m">>, media_str)
            \/ In(<<"_", "6", "x">>, media_str)
    THEN "W6"
    ELSE IF \/ In(<<"9", "x">>, media_str)
            \/ In(<<"9", "m", "m">>, media_str)
            \/ In(<<"_", "9", "x">>, media_str)
    THEN "W9"
    ELSE IF \/ In(<<"1", "2", "x">>, media_str)
            \/ In(<<"1", "2", "m", "m">>, media_str)
            \/ In(<<"_", "1", "2", "x">>, media_str)
    THEN "W12"
    ELSE IF \/ In(<<"1", "8", "x">>, media_str)
            \/ In(<<"1", "8", "m", "m">>, media_str)
            \/ In(<<"_", "1", "8", "x">>, media_str)
    THEN "W18"
    ELSE IF \/ In(<<"2", "4", "x">>, media_str)
            \/ In(<<"2", "4", "m", "m">>, media_str)
            \/ In(<<"_", "2", "4", "x">>, media_str)
    THEN "W24"
    ELSE "None"

\* Faulty variant: the model name is compared as the printer spells it.
fallback_tape_cased(model) ==
    IF In(<<"p", "t", "-", "p", "7", "5", "0", "w">>, model)
    THEN "W6" ELSE "None"

\* Lines 475-482: W6 when the lower-cased model name holds "pt-p750w" (a
\* missing name counts as empty), None otherwise.
fallback_tape(model) ==
    IF In(<<"p", "t", "-", "p", "7", "5", "0", "w">>, lower(model))
    THEN "W6" ELSE "None"

\* Lines 450-452: ready, default, then the supported entries when the
\* attribute is a list.
build_media_list(attrs) ==
    <<attrs.media_ready, attrs.media_default>>
        \o (IF attrs.supported_is_list THEN attrs.media_supported ELSE <<>>)

\* Media descriptors a printer reports: none, "6X", "12mm", "3.5", "18x9mm",
\* "_24X" and "oem", which names no width.
Descriptors ==
    {<<>>, <<"6", "X">>, <<"1", "2", "m", "m">>, <<"3", ".", "5">>,
     <<"1", "8", "x", "9", "m", "m">>, <<"_", "2", "4", "X">>, <<"o", "e", "m">>}

\* Model names a printer reports: none, "PT-P750W" and "QL".
ModelNames ==
    {<<>>, <<"P", "T", "-", "P", "7", "5", "0", "W">>, <<"Q", "L">>}

\* The longest media-supported list tried.
MaxSupported == 1

SupportedLists ==
    UNION {[1..n -> Descriptors] : n \in 0..MaxSupported}

\* A printer as the two requests of detect_tape_size see it: whether
\* GET_PRINTER_ATTRIBUTES fails, whether its answer has no 'printers', a
\* first entry that is no dictionary, or the attributes; a media-supported
\* that is a list or a single text; whether ipp.printer() fails, and the
\* model it names.
Devices ==
    [execute : {"ok"}, printers : {"attrs"},
     media_ready : Descriptors, media_default : Descriptors,
     supported_is_list : {TRUE}, media_supported : SupportedLists,
     printer : {"ok", "raise"}, model : ModelNames]
    \cup
    [execute : {"ok"}, printers : {"attrs"},
     media_ready : Descriptors, media_default : Descriptors,
     supported_is_list : {FALSE}, media_supported : {<<d>> : d \in Descriptors},
     printer : {"ok"}, model : ModelNames]
    \cup
    [execute : {"ok", "raise"}, printers : {"absent", "garbage"},
     media_ready : {<<>>}, media_default : {<<>>},
     supported_is_list : {TRUE}, media_supported : {<<>>},
     printer : {"ok", "raise"}, model : ModelNames]

NoDevice ==
    [execute |-> "raise", printers |-> "absent",
     media_ready |-> <<>>, media_default |-> <<>>,
     supported_is_list |-> TRUE, media_supported |-> <<>>,
     printer |-> "raise", model |-> <<>>]

\* detect_tape_size is not running.
DetectIdle ==
    /\ device = NoDevice
    /\ dpc = "idle"
    /\ media_list = <<>>
    /\ media_i = 0
    /\ dret = "None"
    /\ dcaught = "none"

\* --------------------------------------------------------- send_via_ipp: data

\* A print endpoint as one exchange sees it: the exception the exchange
\* raises ("none" when it answers), and the answer's status-code when the
\* answer has one.
Endpoints ==
    [error : {"IPPConnectionError", "IPPParseError"},
     has_status : {FALSE}, status : {0}]
    \cup [error : {"none"}, has_status : {TRUE}, status : {0, 1, 1030}]
    \cup [error : {"none"}, has_status : {FALSE}, status : {0}]

NoEndpoint == [error |-> "none", has_status |-> FALSE, status |-> 0]

\* Line 510: res.get("status-code", -1).
status_code(res) == IF res.has_status THEN res.status ELSE -1

\* Lines 496-509: the one PRINT_JOB message and where it goes.
print_job(binary, copies, printer) ==
    [operation |-> "PRINT_JOB", host |-> printer, port |-> 631,
     copies |-> copies, data |-> binary]

\* The largest number of copies tried.
MaxCopies == 3

\* Streams handed to send_via_ipp: none, the finalize byte, a short job.
SendBinaries == {<<>>, <<26>>, <<27, 64, 26>>}

\* send_via_ipp is not running.
SendIdle ==
    /\ endpoint = NoEndpoint
    /\ sargs = [binary |-> <<>>, copies |-> 1, printer |-> "None"]
    /\ spc = "idle"
    /\ requests = <<>>
    /\ sret = FALSE
    /\ sexc = "none"

\* -------------------------------------- discovery and its listener: data

\* Python's s.replace(old, "") on text: every occurrence of old, found from
\* the left without overlap, is dropped.
RECURSIVE remove_all(_, _)
remove_all(s, old) ==
    IF Len(s) < Len(old) \/ Len(old) = 0 THEN s
    ELSE IF SubSeq(s, 1, Len(old)) = old
         THEN remove_all(SubSeq(s, Len(old) + 1, Len(s)), old)
         ELSE <<s[1]>> \o remove_all(Tail(s), old)

\* socket.inet_ntoa: four packed bytes to dotted decimal text.
inet_ntoa(packed) ==
    ToString(packed[1]) \o "." \o ToString(packed[2]) \o "."
        \o ToString(packed[3]) \o "." \o ToString(packed[4])

\* What zeroconf.get_service_info gives for one announcement: an exception,
\* None, or an info with addresses (packed), a port and properties.
ServiceInfos ==
    [kind : {"raise", "None"}, addresses : {<<>>}, port : {631},
     properties : {"none"}]
    \cup
    [kind : {"info"},
     addresses : {<<>>, <<<<192, 168, 1, 175>>>>,
                  <<<<192, 168, 1, 176>>, <<192, 168, 1, 175>>>>},
     port : {631, 8631}, properties : {"rp=ipp/print"}]

\* Service types and names heard on the network.
ServiceTypes ==
    {<<"_", "i", "p", "p", ".", "_", "t", "c", "p", ".", "l", "o", "c", "a",
       "l", ".">>,
     <<"_", "h", "t", "t", "p", ".", "_", "t", "c", "p", ".", "l", "o", "c",
        "a", "l", ".">>}

ServiceNames ==
    {<<"B", "r", "o", "t", "h", "e", "r", ".", "_", "i", "p", "p", ".", "_",
       "t", "c", "p", ".", "l", "o", "c", "a", "l", ".">>,
     <<"B", "R", "O", "T", "H", "E", "R", " ", "Q", "L", ".", "_", "i", "p",
        "p", ".", "_", "t", "c", "p", ".", "l", "o", "c", "a", "l", ".">>,
     <<"H", "P", ".", "_", "i", "p", "p", ".", "_", "t", "c", "p", ".", "l",
        "o", "c", "a", "l", ".">>}

Announcements ==
    [service_type : ServiceTypes, name : ServiceNames, info : ServiceInfos]

\* No callback yet.
NoAnnouncement ==
    [service_type |-> <<>>, name |-> <<>>,
     info |-> [kind |-> "None", addresses |-> <<>>, port |-> 631,
               properties |-> "none"]]

\* The most listener callbacks in one run.
MaxAnnouncements == 2

\* Faulty variant: a printer counts as already found by its name.
record_printer_by_name(list, name, info) ==
    IF info.kind = "info" /\ In(<<"b", "r", "o", "t", "h", "e",
       "r">>, lower(name))
       /\ info.addresses # <<>>
    THEN LET ip == inet_ntoa(info.addresses[1])
             printer_info ==
                 [name |-> remove_all(name, <<".", "_", "i", "p", "p", ".",
                    "_", "t", "c", "p", ".", "l", "o", "c", "a", "l", ".">>),
                  ip |-> ip, port |-> info.port, properties |-> info.properties]
             already_found ==
                 \E i \in 1..Len(list) : list[i].name = printer_info.name
         IN  IF already_found THEN list ELSE Append(list, printer_info)
    ELSE list

\* Lines 321-341, inside the try: the list after one announcement whose
\* info was fetched.
record_printer(list, name, info) ==
    IF info.kind = "info" /\ In(<<"b", "r", "o", "t", "h", "e",
       "r">>, lower(name))
       /\ info.addresses # <<>>
    THEN LET ip == inet_ntoa(info.addresses[1])
             printer_info ==
                 [name |-> remove_all(name, <<".", "_", "i", "p", "p", ".",
                    "_", "t", "c", "p", ".", "l", "o", "c", "a", "l", ".">>),
                  ip |-> ip, port |-> info.port, properties |-> info.properties]
             already_found ==
                 \E i \in 1..Len(list) :
                     list[i].ip = ip /\ list[i].port = info.port
         IN  IF already_found THEN list ELSE Append(list, printer_info)
    ELSE list

\* discover_with_passive_listening is not running and no listener exists.
DiscoverIdle ==
    /\ ZEROCONF_AVAILABLE = FALSE
    /\ zc = "unmet"
    /\ printers = <<>>
    /\ announced = 0
    /\ kpc = "idle"
    /\ kret = <<>>
    /\ heard = NoAnnouncement

\* main is not running.
MainIdle ==
    /\ margs = [tape |-> "None"]
    /\ environ = "None"
    /\ kit = "unused"
    /\ mpc = "idle"
    /\ printer_ip = "None"
    /\ tape_size = "None"
    /\ effects = <<>>
    /\ exit_code = -1

\* No image is being made or converted.
RenderIdle ==
    /\ job = [from |-> "none"]
    /\ images = <<>>
    /\ matrices = <<>>

\* sanitize_filename has not been called.
NameIdle ==
    /\ label_text = <<>>
    /\ names = <<>>

\* The encoders of the other two modules have not been called.
VariantIdle ==
    vout = [v \in {"python_ipp_printer", "png_label_printer"} |->
              [state |-> "idle", bytes |-> <<>>]]

\* No function is being checked on its own.
PureIdle == RenderIdle /\ NameIdle /\ VariantIdle

\* The encoder has no caller.
EncoderIdle ==
    /\ TAPE_SPECS = TapeCatalogue
    /\ heap = [o \in {1} |-> Matrix(0, 1, <<>>)]
    /\ args = [c \in {1} |-> Call(1, "W6", TRUE, 20, FALSE)]
    /\ pc = [c \in {1} |-> "idle"]
    /\ data = [c \in {1} |-> <<>>]
    /\ x = [c \in {1} |-> 0]
    /\ ret = [c \in {1} |-> <<>>]
    /\ exc = [c \in {1} |-> "none"]

\* ------------------------------------------------------------ state machine

\* One caller with one matrix object, about to call the encoder.
Init ==
    /\ TAPE_SPECS = TapeCatalogue
    /\ \E tape_key \in DOMAIN TapeCatalogue, hi_res \in BOOLEAN,
          auto_cut \in BOOLEAN, feed \in FeedTenths :
          \E m \in Matrices(tape_key) :
             /\ heap = [o \in {1} |-> m]
             /\ args = [c \in {1} |-> Call(1, tape_key, hi_res, feed, auto_cut)]
    /\ pc = [c \in {1} |-> "start"]
    /\ data = [c \in {1} |-> <<>>]
    /\ x = [c \in {1} |-> 0]
    /\ ret = [c \in {1} |-> <<>>]
    /\ exc = [c \in {1} |-> "none"]
    /\ DetectIdle /\ SendIdle /\ DiscoverIdle /\ MainIdle /\ PureIdle

\* Lines 146-227: everything appended before the raster loop.  struct.pack
\* of the margin raises when the dot count does not fit.
Preamble(c) ==
    /\ pc[c] = "start"
    /\ LET a == args[c]
           spec == TAPE_SPECS[a.spec]
           margin == pack_H(margin_dots(a.hi_res, a.feed_mm))
       IN  \/ /\ margin.ok
              /\ data' = [data EXCEPT ![c] =
                    invalidate_frame \o initialize_frame \o raster_mode_frame
                    \o print_info_frame(spec) \o auto_cut_frame(a.auto_cut)
                    \o cut_every_frame \o advanced_mode_frame(a.hi_res)
                    \o <<27, 105, 100>> \o margin.bytes \o compression_frame]
              /\ pc' = [pc EXCEPT ![c] = "raster"]
              /\ exc' = exc
           \/ /\ ~margin.ok
              /\ pc' = [pc EXCEPT ![c] = "raised"]
              /\ exc' = [exc EXCEPT ![c] = "struct.error"]
              /\ data' = data
    /\ x' = [x EXCEPT ![c] = 0]
    /\ UNCHANGED <<TAPE_SPECS, heap, args, ret>>
    /\ UNCHANGED nonEncVars

\* Faulty variant: the loop clears the pixels of the column it has encoded in the
\* caller's matrix.
RasterColumn_consuming(c) ==
    /\ pc[c] = "raster"
    /\ x[c] < heap[args[c].matrix].width
    /\ LET line == raster_line(heap[args[c].matrix], TAPE_SPECS[args[c].spec], x[c])
       IN  \/ /\ line.ok
              /\ data' = [data EXCEPT ![c] = @ \o line.bytes]
              /\ x' = [x EXCEPT ![c] = @ + 1]
              /\ heap' = [heap EXCEPT ![args[c].matrix].data =
                            [y \in DOMAIN @ |-> [@[y] EXCEPT ![x[c]] = 0]]]
              /\ UNCHANGED <<pc, exc>>
           \/ /\ ~line.ok
              /\ pc' = [pc EXCEPT ![c] = "raised"]
              /\ exc' = [exc EXCEPT ![c] = "IndexError"]
              /\ UNCHANGED <<data, x, heap>>
    /\ UNCHANGED <<TAPE_SPECS, args, ret>>
    /\ UNCHANGED nonEncVars

\* Lines 235-262: one iteration of `for x in range(w)`.
RasterColumn(c) ==
    /\ pc[c] = "raster"
    /\ x[c] < heap[args[c].matrix].width
    /\ LET line == raster_line(heap[args[c].matrix], TAPE_SPECS[args[c].spec], x[c])
       IN  \/ /\ line.ok
              /\ data' = [data EXCEPT ![c] = @ \o line.bytes]
              /\ x' = [x EXCEPT ![c] = @ + 1]
              /\ UNCHANGED <<pc, exc>>
           \/ /\ ~line.ok
              /\ pc' = [pc EXCEPT ![c] = "raised"]
              /\ exc' = [exc EXCEPT ![c] = "IndexError"]
              /\ UNCHANGED <<data, x>>
    /\ UNCHANGED <<TAPE_SPECS, heap, args, ret>>
    /\ UNCHANGED nonEncVars

\* Lines 264-269: the print command and the join that is returned.
Finish(c) ==
    /\ pc[c] = "raster"
    /\ x[c] >= heap[args[c].matrix].width
    /\ ret' = [ret EXCEPT ![c] = data[c] \o print_frame]
    /\ pc' = [pc EXCEPT ![c] = "done"]
    /\ UNCHANGED <<TAPE_SPECS, heap, args, data, x, exc>>
    /\ UNCHANGED nonEncVars

\* Matrices for two callers side by side: as high as the image of the tape,
\* every column with its first row or every third row set.
PairMatrices(tape_key) ==
    LET h == create_label_png(TapeCatalogue, tape_key, 1, 0).size[2]
    IN  UNION {{Matrix(w, h, cols) :
                  cols \in [0..(w - 1) -> {{0}, {y \in 0..(h - 1) : y % 3 = 1}}]}
               : w \in 0..MaxPairWidth}

\* Two independent callers about to call the encoder with the default feed,
\* each with its own options, on one shared matrix object or on one each.
InitPair ==
    /\ TAPE_SPECS = TapeCatalogue
    /\ \E t1 \in {"W6", "W24"}, t2 \in {"W6", "W24"},
          h1 \in BOOLEAN, h2 \in BOOLEAN, c1 \in BOOLEAN, c2 \in BOOLEAN :
          \E m1 \in PairMatrices(t1), m2 \in PairMatrices(t2), shared \in BOOLEAN :
             /\ heap = IF shared THEN [o \in {1} |-> m1]
                       ELSE [o \in {1, 2} |-> IF o = 1 THEN m1 ELSE m2]
             /\ args = [c \in {1, 2} |->
                          IF c = 1 THEN Call(1, t1, h1, 20, c1)
                          ELSE Call(IF shared THEN 1 ELSE 2, t2, h2, 20, c2)]
    /\ pc = [c \in {1, 2} |-> "start"]
    /\ data = [c \in {1, 2} |-> <<>>]
    /\ x = [c \in {1, 2} |-> 0]
    /\ ret = [c \in {1, 2} |-> <<>>]
    /\ exc = [c \in {1, 2} |-> "none"]
    /\ DetectIdle /\ SendIdle /\ DiscoverIdle /\ MainIdle /\ PureIdle

Next ==
    \/ \E c \in DOMAIN pc : Preamble(c)
    \/ \E c \in DOMAIN pc : RasterColumn(c)
    \/ \E c \in DOMAIN pc : Finish(c)

Spec == Init /\ [][Next]_vars

SpecPair == InitPair /\ [][Next]_vars

\* --------------------------------------------- detect_tape_size: control

\* A call of detect_tape_size against one printer; the encoder is idle.
InitDetect ==
    /\ EncoderIdle /\ SendIdle /\ DiscoverIdle /\ MainIdle /\ PureIdle
    /\ device \in Devices
    /\ dpc = "query"
    /\ media_list = <<>>
    /\ media_i = 0
    /\ dret = "None"
    /\ dcaught = "none"

\* Faulty variant: no except clause, the exception leaves the function.
DetectExcept_uncaught(what) ==
    /\ dpc' = "raised"
    /\ dret' = "None"
    /\ dcaught' = what

\* The except clause of lines 484-486: warn and return None.
DetectExcept(what) ==
    /\ dpc' = "returned"
    /\ dret' = "None"
    /\ dcaught' = what

\* Lines 416-452: the attribute request, the look at 'printers', and the
\* list of descriptors.
DetectQuery ==
    /\ dpc = "query"
    /\ IF device.execute = "raise"
       THEN DetectExcept("execute") /\ UNCHANGED <<media_list, media_i>>
       ELSE IF device.printers = "absent"
       THEN /\ dpc' = "fallback"
            /\ UNCHANGED <<media_list, media_i, dret, dcaught>>
       ELSE IF device.printers = "garbage"
       THEN DetectExcept("attrs") /\ UNCHANGED <<media_list, media_i>>
       ELSE /\ media_list' = build_media_list(device)
            /\ media_i' = 1
            /\ dpc' = "scan"
            /\ UNCHANGED <<dret, dcaught>>
    /\ UNCHANGED <<nonDetVars, device>>

\* Lines 454-472: one turn of `for media in media_list`, or its end.
DetectScan ==
    /\ dpc = "scan"
    /\ IF media_i > Len(media_list)
       THEN /\ dpc' = "fallback"
            /\ UNCHANGED <<media_i, dret>>
       ELSE LET media == media_list[media_i]
                found == match_tape(lower(media))
            IN  IF media = <<>> \/ found = "None"
                THEN /\ media_i' = media_i + 1
                     /\ UNCHANGED <<dpc, dret>>
                ELSE /\ dpc' = "returned"
                     /\ dret' = found
                     /\ UNCHANGED media_i
    /\ UNCHANGED <<nonDetVars, device, media_list, dcaught>>

\* Lines 474-482: ask for the printer's model; W6 for a PT-P750W.
DetectFallback ==
    /\ dpc = "fallback"
    /\ IF device.printer = "raise"
       THEN DetectExcept("printer")
       ELSE /\ dpc' = "returned"
            /\ dret' = fallback_tape(device.model)
            /\ UNCHANGED dcaught
    /\ UNCHANGED <<nonDetVars, device, media_list, media_i>>

NextDetect ==
    \/ DetectQuery
    \/ DetectScan
    \/ DetectFallback

SpecDetect == InitDetect /\ [][NextDetect]_vars

\* ------------------------------------------------- send_via_ipp: control

\* A call of send_via_ipp, with or without an address, against one endpoint.
InitSend ==
    /\ EncoderIdle /\ DetectIdle /\ DiscoverIdle /\ MainIdle /\ PureIdle
    /\ endpoint \in Endpoints
    /\ \E binary \in SendBinaries, copies \in 1..MaxCopies,
          printer \in {"None", "192.168.1.175", "192.168.1.176"} :
          sargs = [binary |-> binary, copies |-> copies, printer |-> printer]
    /\ spc = "start"
    /\ requests = <<>>
    /\ sret = FALSE
    /\ sexc = "none"

\* Lines 493-494: no address, ValueError.
SendCheck ==
    /\ spc = "start"
    /\ IF sargs.printer = "None"
       THEN spc' = "raised" /\ sexc' = "ValueError"
       ELSE spc' = "exchange" /\ UNCHANGED sexc
    /\ UNCHANGED <<nonSendVars, endpoint, sargs, requests, sret>>

\* Faulty variant: a failed exchange is tried a second time.
SendExchange_retry ==
    /\ spc = "exchange"
    /\ LET msg == print_job(sargs.binary, sargs.copies, sargs.printer)
       IN  requests' = IF endpoint.error # "none"
                       THEN requests \o <<msg, msg>>
                       ELSE Append(requests, msg)
    /\ IF endpoint.error # "none"
       THEN spc' = "raised" /\ sexc' = endpoint.error /\ UNCHANGED sret
       ELSE /\ spc' = "returned"
            /\ sret' = (status_code(endpoint) = 0)
            /\ UNCHANGED sexc
    /\ UNCHANGED <<nonSendVars, endpoint, sargs>>

\* Lines 495-510: one execute of PRINT_JOB; its exception leaves the
\* function, its answer is compared with 0.
SendExchange ==
    /\ spc = "exchange"
    /\ requests' = Append(requests,
                          print_job(sargs.binary, sargs.copies, sargs.printer))
    /\ IF endpoint.error # "none"
       THEN spc' = "raised" /\ sexc' = endpoint.error /\ UNCHANGED sret
       ELSE /\ spc' = "returned"
            /\ sret' = (status_code(endpoint) = 0)
            /\ UNCHANGED sexc
    /\ UNCHANGED <<nonSendVars, endpoint, sargs>>

NextSend ==
    \/ SendCheck
    \/ SendExchange

SpecSend == InitSend /\ [][NextSend]_vars

\* --------------------------------------- discovery and its listener: control

\* A call of discover_with_passive_listening, with or without zeroconf.
InitDiscover ==
    /\ EncoderIdle /\ DetectIdle /\ SendIdle /\ MainIdle /\ PureIdle
    /\ ZEROCONF_AVAILABLE \in BOOLEAN
    /\ zc = "unmet"
    /\ printers = <<>>
    /\ announced = 0
    /\ kpc = "start"
    /\ kret = <<>>
    /\ heard = NoAnnouncement

\* Faulty variant: a failing set-up is not caught.
DiscoverStart_uncaught ==
    /\ kpc = "start"
    /\ IF ~ZEROCONF_AVAILABLE
       THEN kpc' = "returned" /\ kret' = <<>> /\ UNCHANGED zc
       ELSE \E z \in {"ok", "raise"} :
               /\ zc' = z
               /\ kpc' = IF z = "raise" THEN "raised" ELSE "listening"
               /\ UNCHANGED kret
    /\ UNCHANGED <<nonDiscVars, ZEROCONF_AVAILABLE, printers, announced, heard>>

\* Lines 379-393 and 403-409: without zeroconf return []; otherwise set up
\* Zeroconf, the listener and the browser, and return [] from the except
\* clause when that raises.
DiscoverStart ==
    /\ kpc = "start"
    /\ IF ~ZEROCONF_AVAILABLE
       THEN kpc' = "returned" /\ kret' = <<>> /\ UNCHANGED zc
       ELSE \E z \in {"ok", "raise"} :
               /\ zc' = z
               /\ IF z = "raise"
                  THEN kpc' = "returned" /\ kret' = <<>>
                  ELSE kpc' = "listening" /\ UNCHANGED kret
    /\ UNCHANGED <<nonDiscVars, ZEROCONF_AVAILABLE, printers, announced, heard>>

\* Lines 311-348: a callback of the browser while main sleeps.  Other
\* service types are dropped; an exception of get_service_info is swallowed.
add_service(a) ==
    /\ kpc = "listening"
    /\ announced < MaxAnnouncements
    /\ announced' = announced + 1
    /\ heard' = a
    /\ printers' = IF ~In(<<"_", "i", "p", "p", ".", "_", "t", "c", "p">>, a.service_type)
                      \/ a.info.kind = "raise"
                   THEN printers
                   ELSE record_printer(printers, a.name, a.info)
    /\ UNCHANGED <<nonDiscVars, ZEROCONF_AVAILABLE, zc, kpc, kret>>

\* Lines 350-352: only a message.
remove_service(a) ==
    /\ kpc = "listening"
    /\ announced < MaxAnnouncements
    /\ announced' = announced + 1
    /\ heard' = a
    /\ UNCHANGED <<nonDiscVars, ZEROCONF_AVAILABLE, zc, printers, kpc, kret>>

\* Lines 354-356: an update, heard like every callback while the browser
\* runs, is handled as an addition.
update_service(a) ==
    /\ kpc = "listening"
    /\ add_service(a)

\* Lines 396-409: the sleep is over; the listener's list is returned and the
\* browser is cancelled.
DiscoverTimeout ==
    /\ kpc = "listening"
    /\ kpc' = "returned"
    /\ kret' = printers
    /\ UNCHANGED <<nonDiscVars, ZEROCONF_AVAILABLE, zc, printers, announced, heard>>

NextDiscover ==
    \/ DiscoverStart
    \/ \E a \in Announcements : add_service(a)
    \/ \E a \in Announcements : remove_service(a)
    \/ \E a \in Announcements : update_service(a)
    \/ DiscoverTimeout

SpecDiscover == InitDiscover /\ [][NextDiscover]_vars

\* ------------------------------------------------------------ main: data

\* The numeric options: the defaults with a margin of one pixel, and each
\* option in turn just outside its range on either side.
Numerics ==
    [font : {40}, margin : {1}, copies : {1}, listen_timeout : {70}]
    \cup [font : {0, 201}, margin : {1}, copies : {1}, listen_timeout : {70}]
    \cup [font : {40}, margin : {-1, 101}, copies : {1}, listen_timeout : {70}]
    \cup [font : {40}, margin : {1}, copies : {0, 11}, listen_timeout : {70}]
    \cup [font : {40}, margin : {1}, copies : {1}, listen_timeout : {0, 301}]

\* A command line: the numeric options, --printer, --tape (W7 is no tape),
\* --mode, --auto-cut, --no-auto-detect and --listen; "None" for an option
\* that is not given.
CommandLines ==
    {[numeric |-> n, printer |-> p, tape |-> t, mode |-> m, auto_cut |-> c,
      no_auto_detect |-> d, listen |-> l] :
        n \in Numerics, p \in {"None", "192.168.1.174"},
        t \in {"None", "W12", "W7"}, m \in {"png", "labelprinterkit"},
        c \in BOOLEAN, d \in BOOLEAN, l \in BOOLEAN}

\* Faulty variant: an unknown tape is replaced by the default.
parse_tape_default(specs, tape) ==
    IF tape = "None" \/ tape \in DOMAIN specs THEN tape ELSE "W6"

\* Lines 521-527 and 578: --tape has choices=TAPE_SPECS.keys(); parse_args
\* ends the process for any other value.
parse_tape(specs, tape) ==
    IF tape = "None" \/ tape \in DOMAIN specs THEN tape ELSE "error"

\* args.tape: what parse_args made of --tape on the command line.
args_tape(specs, line) == parse_tape(specs, line.tape)

\* Faulty variant: the upper limit of the font size is off by one.
valid_numbers_lax(n) ==
    /\ ~(n.font <= 0 \/ n.font > 201)
    /\ ~(n.margin < 0 \/ n.margin > 100)
    /\ ~(n.copies <= 0 \/ n.copies > 10)
    /\ ~(n.listen_timeout <= 0 \/ n.listen_timeout > 300)

\* Lines 581-596: the four range tests.
valid_numbers(n) ==
    /\ ~(n.font <= 0 \/ n.font > 200)
    /\ ~(n.margin < 0 \/ n.margin > 100)
    /\ ~(n.copies <= 0 \/ n.copies > 10)
    /\ ~(n.listen_timeout <= 0 \/ n.listen_timeout > 300)

\* Python's `not printer_ip` for None and for text.
falsy(text) == text = "None" \/ text = ""

\* What main did to the outside, as one entry of effects.
Effect(op, bytes) == [op |-> op, data |-> bytes]

\* Announcements heard while main listens: "Brother" at .175, "BROTHER QL"
\* and another make with first address .176, all on port 631.
MainAnnouncements ==
    {a \in Announcements :
        /\ a.service_type = <<"_", "i", "p", "p", ".", "_", "t", "c", "p", ".", "l", "o",
                             "c", "a", "l", ".">>
        /\ a.info.kind = "info"
        /\ a.info.port = 631
        /\ a.info.addresses # <<>>
        /\ a.name[2] = "r" <=> a.info.addresses[1][4] = 175}

\* Printers main asks for the tape: one that refuses, one with a broken
\* answer, a PT-P750W with an empty answer, one ready with "_24X", one with
\* default "3.5", and two naming no width: a PT-P750W and one that fails the
\* model query.
MainDevices ==
    {d \in Devices :
        /\ d.supported_is_list /\ d.media_supported = <<>>
        /\ \/ d.execute = "raise" /\ d.printers = "absent"
                /\ d.printer = "raise" /\ d.model = <<>>
           \/ d.execute = "ok" /\ d.printers = "garbage"
                /\ d.printer = "ok" /\ d.model = <<>>
           \/ d.execute = "ok" /\ d.printers = "absent" /\ d.printer = "ok"
                /\ d.model = <<"P", "T", "-", "P", "7", "5", "0", "W">>
           \/ d.printers = "attrs" /\ d.printer = "ok" /\ d.model = <<>>
                /\ \/ d.media_ready = <<"_", "2", "4", "X">> /\ d.media_default = <<>>
                   \/ d.media_ready = <<>> /\ d.media_default = <<"3", ".", "5">>
           \/ d.printers = "attrs" /\ d.media_ready = <<"o", "e", "m">>
                /\ d.media_default = <<>>
                /\ \/ d.printer = "ok" /\ d.model = <<"P", "T", "-", "P", "7", "5", "0", "W">>
                   \/ d.printer = "raise" /\ d.model = <<>>}

\* The matrices png_to_bw_matrix gives for the image of one rendering: one
\* glyph column between the margins, as high as the tape has pins, every
\* column with its first row or every third row set.
RenderedMatrices(specs, tape_key, margin_px) ==
    LET size == create_label_png(specs, tape_key, 1, margin_px).size
    IN  {Matrix(size[1], size[2], [xx \in 0..(size[1] - 1) |-> rows]) :
            rows \in {{0}, {y \in 0..(size[2] - 1) : y % 3 = 1}}}

\* ---------------------------------------------------------- main: control

\* The process starts with a command line and an environment.
InitMain ==
    /\ EncoderIdle /\ DetectIdle /\ SendIdle /\ PureIdle
    /\ ZEROCONF_AVAILABLE \in BOOLEAN
    /\ zc = "unmet"
    /\ printers = <<>>
    /\ announced = 0
    /\ kpc = "idle"
    /\ kret = <<>>
    /\ heard = NoAnnouncement
    /\ margs \in CommandLines
    /\ environ \in {"None", "192.168.1.177"}
    /\ kit = "unused"
    /\ mpc = "parse"
    /\ printer_ip = "None"
    /\ tape_size = "None"
    /\ effects = <<>>
    /\ exit_code = -1

\* The process ends with a code.
Exit(code) ==
    /\ mpc' = "exit"
    /\ exit_code' = code

\* Lines 516-578: argparse; a --tape outside the choices ends with code 2.
MainParse ==
    /\ mpc = "parse"
    /\ IF parse_tape(TAPE_SPECS, margs.tape) = "error"
       THEN Exit(2)
       ELSE mpc' = "validate" /\ UNCHANGED exit_code
    /\ UNCHANGED <<encVars, detVars, sendVars, discVars, pureVars>>
    /\ UNCHANGED <<margs, environ, kit, printer_ip, tape_size, effects>>

\* Lines 581-598: the range tests, each ending with code 1.
MainValidate ==
    /\ mpc = "validate"
    /\ IF valid_numbers(margs.numeric)
       THEN mpc' = "printer" /\ UNCHANGED exit_code
       ELSE Exit(1)
    /\ UNCHANGED <<encVars, detVars, sendVars, discVars, pureVars>>
    /\ UNCHANGED <<margs, environ, kit, printer_ip, tape_size, effects>>

\* Lines 600-628, up to the call of discovery: the explicit address, else
\* discovery when --listen is given, else the environment variable; code 1
\* when the variable gives nothing.
MainPrinter ==
    /\ mpc = "printer"
    /\ IF ~falsy(margs.printer)
       THEN /\ printer_ip' = margs.printer
            /\ mpc' = "tape"
            /\ UNCHANGED <<discVars, effects, exit_code>>
       ELSE IF margs.listen
       THEN /\ effects' = Append(effects, Effect("discover", <<>>))
            /\ kpc' = "start"
            /\ mpc' = "discovering"
            /\ printer_ip' = margs.printer
            /\ UNCHANGED <<ZEROCONF_AVAILABLE, zc, printers, announced, kret, heard>>
            /\ UNCHANGED exit_code
       ELSE /\ effects' = Append(effects, Effect("getenv", <<>>))
            /\ printer_ip' = environ
            /\ IF falsy(environ)
               THEN Exit(1)
               ELSE mpc' = "tape" /\ UNCHANGED exit_code
            /\ UNCHANGED discVars
    /\ UNCHANGED <<encVars, detVars, sendVars, pureVars>>
    /\ UNCHANGED <<margs, environ, kit, tape_size>>

\* Lines 607-628, after discovery returned: the first printer's address, or
\* code 1 when the list is empty.
MainDiscovered ==
    /\ mpc = "discovering"
    /\ kpc = "returned"
    /\ IF kret # <<>>
       THEN /\ printer_ip' = kret[1].ip
            /\ mpc' = "tape"
            /\ UNCHANGED exit_code
       ELSE Exit(1) /\ UNCHANGED printer_ip
    /\ UNCHANGED <<encVars, detVars, sendVars, discVars, pureVars>>
    /\ UNCHANGED <<margs, environ, kit, tape_size, effects>>

\* Faulty variant: the printer is asked for its tape whenever detection is
\* not disabled, also when --tape was given.
MainTape_always_detect ==
    /\ mpc = "tape"
    /\ tape_size' = args_tape(TAPE_SPECS, margs)
    /\ IF ~margs.no_auto_detect
       THEN /\ effects' = Append(effects, Effect("detect", <<>>))
            /\ device' \in MainDevices
            /\ dpc' = "query"
            /\ mpc' = "detecting"
            /\ UNCHANGED <<media_list, media_i, dret, dcaught>>
       ELSE /\ mpc' = "mode"
            /\ UNCHANGED <<detVars, effects>>
    /\ UNCHANGED <<encVars, sendVars, discVars, pureVars>>
    /\ UNCHANGED <<margs, environ, kit, printer_ip, exit_code>>

\* Lines 630-642, up to the call of detect_tape_size: the explicit tape,
\* else detection unless disabled, else W6.
MainTape ==
    /\ mpc = "tape"
    /\ IF falsy(args_tape(TAPE_SPECS, margs)) /\ ~margs.no_auto_detect
       THEN /\ effects' = Append(effects, Effect("detect", <<>>))
            /\ device' \in MainDevices
            /\ dpc' = "query"
            /\ mpc' = "detecting"
            /\ tape_size' = args_tape(TAPE_SPECS, margs)
            /\ UNCHANGED <<media_list, media_i, dret, dcaught>>
       ELSE /\ tape_size' = IF falsy(args_tape(TAPE_SPECS, margs)) THEN "W6"
                            ELSE args_tape(TAPE_SPECS, margs)
            /\ mpc' = "mode"
            /\ UNCHANGED <<detVars, effects>>
    /\ UNCHANGED <<encVars, sendVars, discVars, pureVars>>
    /\ UNCHANGED <<margs, environ, kit, printer_ip, exit_code>>

\* Lines 633-639, after detect_tape_size ended: its tape, or W6 for None; an
\* exception leaving it would end the process with a traceback and code 1.
MainDetected ==
    /\ mpc = "detecting"
    /\ dpc \in {"returned", "raised"}
    /\ IF dpc = "raised"
       THEN Exit(1) /\ UNCHANGED tape_size
       ELSE /\ tape_size' = IF falsy(dret) THEN "W6" ELSE dret
            /\ mpc' = "mode"
            /\ UNCHANGED exit_code
    /\ UNCHANGED <<encVars, detVars, sendVars, discVars, pureVars>>
    /\ UNCHANGED <<margs, environ, kit, printer_ip, effects>>

\* Lines 649-669 with print_with_labelprinterkit, lines 274-298: code 1
\* without the library; else the image is saved and handed to the library,
\* whose answer is printed; only an exception ends with code 1.
MainKit ==
    /\ mpc = "mode"
    /\ margs.mode = "labelprinterkit"
    /\ \E k \in {"unavailable", "success", "failure", "raise"} :
          /\ kit' = k
          /\ IF k = "unavailable"
             THEN Exit(1) /\ UNCHANGED effects
             ELSE /\ effects' = effects \o <<Effect("save_png", <<>>),
                                              Effect("print_image", <<>>)>>
                  /\ Exit(IF k = "raise" THEN 1 ELSE 0)
    /\ UNCHANGED <<encVars, detVars, sendVars, discVars, pureVars>>
    /\ UNCHANGED <<margs, environ, printer_ip, tape_size>>

\* Lines 671-682: the image is made and saved, turned into a matrix, and the
\* encoder is called with hi_res=True and the default feed of 2 mm.
MainRender ==
    /\ mpc = "mode"
    /\ margs.mode = "png"
    /\ \E m \in RenderedMatrices(TAPE_SPECS, tape_size, margs.numeric.margin) :
          heap' = [heap EXCEPT ![1] = m]
    /\ effects' = Append(effects, Effect("save_png", <<>>))
    /\ args' = [args EXCEPT ![1] = Call(1, tape_size, TRUE, 20, margs.auto_cut)]
    /\ pc' = [pc EXCEPT ![1] = "start"]
    /\ mpc' = "encoding"
    /\ UNCHANGED <<TAPE_SPECS, data, x, ret, exc>>
    /\ UNCHANGED <<detVars, sendVars, discVars, pureVars>>
    /\ UNCHANGED <<margs, environ, kit, printer_ip, tape_size, exit_code>>

\* Faulty variant: the stream is handed on before the print frame is added.
MainWrite_partial ==
    /\ mpc = "encoding"
    /\ pc[1] \in {"done", "raised"}
    /\ IF pc[1] = "raised"
       THEN Exit(1) /\ UNCHANGED <<sendVars, effects>>
       ELSE /\ effects' = effects \o <<Effect("write_bin", ret[1]),
                                       Effect("send", data[1])>>
            /\ sargs' = [binary |-> data[1], copies |-> margs.numeric.copies,
                         printer |-> printer_ip]
            /\ endpoint' \in Endpoints
            /\ spc' = "start"
            /\ mpc' = "sending"
            /\ UNCHANGED <<requests, sret, sexc, exit_code>>
    /\ UNCHANGED <<encVars, detVars, discVars, pureVars>>
    /\ UNCHANGED <<margs, environ, kit, printer_ip, tape_size>>

\* Lines 680-689, after the encoder ended: the stream is written to the
\* .bin file and send_via_ipp is called with it; an exception of the encoder
\* ends the process with code 1.
MainWrite ==
    /\ mpc = "encoding"
    /\ pc[1] \in {"done", "raised"}
    /\ IF pc[1] = "raised"
       THEN Exit(1) /\ UNCHANGED <<sendVars, effects>>
       ELSE /\ effects' = effects \o <<Effect("write_bin", ret[1]),
                                       Effect("send", ret[1])>>
            /\ sargs' = [binary |-> ret[1], copies |-> margs.numeric.copies,
                         printer |-> printer_ip]
            /\ endpoint' \in Endpoints
            /\ spc' = "start"
            /\ mpc' = "sending"
            /\ UNCHANGED <<requests, sret, sexc, exit_code>>
    /\ UNCHANGED <<encVars, detVars, discVars, pureVars>>
    /\ UNCHANGED <<margs, environ, kit, printer_ip, tape_size>>

\* Lines 689-690, after send_via_ipp ended: its answer is printed and main
\* returns; an exception leaving it ends the process with code 1.
MainReport ==
    /\ mpc = "sending"
    /\ spc \in {"returned", "raised"}
    /\ Exit(IF spc = "raised" THEN 1 ELSE 0)
    /\ UNCHANGED <<encVars, detVars, sendVars, discVars, pureVars>>
    /\ UNCHANGED <<margs, environ, kit, printer_ip, tape_size, effects>>

NextMain ==
    \/ MainParse
    \/ MainValidate
    \/ MainPrinter
    \/ DiscoverStart
    \/ \E a \in MainAnnouncements : add_service(a)
    \/ \E a \in MainAnnouncements : remove_service(a)
    \/ \E a \in MainAnnouncements : update_service(a)
    \/ DiscoverTimeout
    \/ MainDiscovered
    \/ MainTape
    \/ DetectQuery
    \/ DetectScan
    \/ DetectFallback
    \/ MainDetected
    \/ MainKit
    \/ MainRender
    \/ Preamble(1)
    \/ RasterColumn(1)
    \/ Finish(1)
    \/ MainWrite
    \/ SendCheck
    \/ SendExchange
    \/ MainReport

SpecMain == InitMain /\ [][NextMain]_vars

\* ------------------------------------------------------ sanitize_filename

\* The ten digits.
Digits == <<"0", "1", "2", "3", "4", "5", "6", "7", "8", "9">>

\* The class \s of a pattern on text, as far as the texts tried go: space,
\* tab and line feed.
Whitespace == {" ", "\t", "\n"}

\* Line 69, the class [a-zA-Z0-9\s\-_]: what re.sub leaves in place.
Kept(ch) ==
    \/ \E k \in 1..26 : LowerCase[k] = ch \/ UpperCase[k] = ch
    \/ \E k \in 1..10 : Digits[k] = ch
    \/ ch \in Whitespace
    \/ ch \in {"-", "_"}

\* Lines 66-71: every character outside the class is removed, every space
\* becomes an underscore, and the first 50 characters are returned.
sanitize_filename(text) ==
    LET safe_text == SelectSeq(text, Kept)
        replaced == [i \in 1..Len(safe_text) |->
                        IF safe_text[i] = " " THEN "_" ELSE safe_text[i]]
    IN  SubSeq(replaced, 1, IF Len(replaced) < 50 THEN Len(replaced) ELSE 50)

\* The longest head of a text tried.
MaxHead == 2

\* Characters the heads are made of: a letter, a capital, a digit, the two
\* kept signs, a space, a tab, a path separator and a dot.
HeadChars == {"a", "Z", "7", "-", "_", " ", "\t", "/", "."}

\* Lengths of the run of "x" that follows the head: none, and around the
\* limit of 50.
TailLengths == {0, 48, 49, 50}

\* Texts given to sanitize_filename: a head of up to MaxHead characters
\* followed by a run of "x".
Texts ==
    {h \o [i \in 1..n |-> "x"] :
        h \in UNION {[1..k -> HeadChars] : k \in 0..MaxHead}, n \in TailLengths}

\* sanitize_filename is called on a text.
InitName ==
    /\ EncoderIdle /\ DetectIdle /\ SendIdle /\ DiscoverIdle /\ MainIdle
    /\ RenderIdle /\ VariantIdle
    /\ label_text \in Texts
    /\ names = <<>>

\* Lines 675 and 684: the first call, on the text of the label.
Sanitize ==
    /\ names = <<>>
    /\ names' = <<sanitize_filename(label_text)>>
    /\ UNCHANGED <<encVars, detVars, sendVars, discVars, mainVars>>
    /\ UNCHANGED <<renderVars, label_text, vout>>

\* A second call, on what the first returned.
SanitizeAgain ==
    /\ Len(names) = 1
    /\ names' = Append(names, sanitize_filename(names[1]))
    /\ UNCHANGED <<encVars, detVars, sendVars, discVars, mainVars>>
    /\ UNCHANGED <<renderVars, label_text, vout>>

NextName ==
    \/ Sanitize
    \/ SanitizeAgain

SpecName == InitName /\ [][NextName]_vars

\* ------------------------------------- create_label_png and png_to_bw_matrix

\* An image: its mode, its size (w, h) and the bands of every pixel, one
\* for mode "L", three for mode "RGB", as px[y][x].
Image(mode, w, h, px) == [mode |-> mode, size |-> <<w, h>>, px |-> px]

\* The ink of a text in a font: glyph_w by glyph_h coverages of 0..255, the
\* box Image.getbbox() gives on lines 98-101.
GlyphCoverage == <<255, 128, 127, 0>>

\* The widest and the highest ink tried.
MaxGlyph == 2

\* Inks: every box up to MaxGlyph wide and high, filled row by row with the
\* coverages in turn, starting anywhere in the list.
Glyphs ==
    {[w |-> w, h |-> h,
      cov |-> [gy \in 0..(h - 1) |->
                 [gx \in 0..(w - 1) |-> GlyphCoverage[((gy * w + gx + k) % 4) + 1]]]] :
        w \in 1..MaxGlyph, h \in 1..MaxGlyph, k \in 0..3}

\* ImageDraw.text on an "L" image: the fill colour is laid over the
\* background in proportion to the coverage.
blend(bg_color, text_color, cov) ==
    IF text_color >= bg_color
    THEN bg_color + ((text_color - bg_color) * cov) \div 255
    ELSE bg_color - ((bg_color - text_color) * cov) \div 255

\* Lines 103-124: a canvas of the size create_label_png computes, filled
\* with the background colour of the tape, with the ink drawn in the text
\* colour margin_px from the left and (canvas_h - glyph_h) // 2 from the top.
draw_label(specs, tape_key, glyph, margin_px, white_tape) ==
    LET size == create_label_png(specs, tape_key, glyph.w, margin_px).size
        canvas_w == size[1]
        canvas_h == size[2]
        bg_color == IF white_tape THEN 255 ELSE 0
        text_color == IF white_tape THEN 0 ELSE 255
        left == margin_px
        top == (canvas_h - glyph.h) \div 2
    IN  Image("L", canvas_w, canvas_h,
              [y \in 0..(canvas_h - 1) |->
                 [xx \in 0..(canvas_w - 1) |->
                    IF /\ xx - left \in 0..(glyph.w - 1)
                       /\ y - top \in 0..(glyph.h - 1)
                    THEN <<blend(bg_color, text_color,
                                 glyph.cov[y - top][xx - left])>>
                    ELSE <<bg_color>>]])

\* Line 130, Image.convert("L") of an "RGB" image: the luma of the three
\* bands, in 16-bit fixed point, rounded.
convert_L(img) ==
    IF img.mode = "L" THEN img
    ELSE Image("L", img.size[1], img.size[2],
               [y \in 0..(img.size[2] - 1) |->
                  [xx \in 0..(img.size[1] - 1) |->
                     LET rgb == img.px[y][xx]
                     IN  <<(rgb[1] * 19595 + rgb[2] * 38470 + rgb[3] * 7471
                            + 32768) \div 65536>>]])

\* Faulty variant: a gray value equal to the threshold counts as dark.
png_to_bw_matrix_inclusive(img, threshold) ==
    LET gray == convert_L(img)
        w == gray.size[1]
        h == gray.size[2]
    IN  [width |-> w, height |-> h,
         data |-> [y \in 0..(h - 1) |->
                     [xx \in 0..(w - 1) |->
                        IF gray.px[y][xx][1] <= threshold THEN 1 ELSE 0]]]

\* Lines 127-136: the image is converted to mode "L" unless it has it, and
\* every pixel below the threshold becomes 1, every other pixel 0.
png_to_bw_matrix(img, threshold) ==
    LET gray == convert_L(img)
        w == gray.size[1]
        h == gray.size[2]
    IN  [width |-> w, height |-> h,
         data |-> [y \in 0..(h - 1) |->
                     [xx \in 0..(w - 1) |->
                        IF gray.px[y][xx][1] < threshold THEN 1 ELSE 0]]]

\* Gray values of the images read from files: both ends, the default
\* threshold and its two neighbours.
GrayRamp == <<0, 127, 128, 129, 255>>

\* The longest side of an image read from a file.
MaxSide == 3

\* Images read from files: every size up to MaxSide, in mode "L" or with
\* three equal bands in mode "RGB", the pixels running through GrayRamp row
\* by row, starting anywhere in the list.
OpenedImages ==
    {Image(mode, w, h,
           [y \in 0..(h - 1) |->
              [xx \in 0..(w - 1) |->
                 LET v == GrayRamp[((y * w + xx + k) % 5) + 1]
                 IN  IF mode = "L" THEN <<v>> ELSE <<v, v, v>>]]) :
        mode \in {"L", "RGB"}, w \in 1..MaxSide, h \in 1..MaxSide, k \in 0..4}

\* The largest margin_px tried.
MaxMargin == 2

\* Thresholds passed to png_to_bw_matrix: the default and the largest gray
\* value.
Thresholds == {128, 255}

\* One sitting with the two functions: the tape, the ink of the text in the
\* font, the kind of tape, the threshold, and where the images came from.
Jobs ==
    [tape_key : {"W3_5", "W6"}, glyph : Glyphs, white_tape : BOOLEAN,
     threshold : Thresholds, from : {"none"}]

InitRender ==
    /\ EncoderIdle /\ DetectIdle /\ SendIdle /\ DiscoverIdle /\ MainIdle
    /\ NameIdle /\ VariantIdle
    /\ job \in Jobs
    /\ images = <<>>
    /\ matrices = <<>>

\* Image.open: one image read from a file.
OpenImage ==
    /\ images = <<>>
    /\ \E img \in OpenedImages : images' = <<img>>
    /\ job' = [job EXCEPT !.from = "file"]
    /\ UNCHANGED <<encVars, detVars, sendVars, discVars, mainVars>>
    /\ UNCHANGED <<matrices, nameVars, vout>>

\* create_label_png for the text, font and tape of the job, at most twice.
CreateLabel(margin_px) ==
    /\ job.from # "file"
    /\ Len(images) < 2
    /\ images' = Append(images, draw_label(TAPE_SPECS, job.tape_key, job.glyph,
                                           margin_px, job.white_tape))
    /\ job' = [job EXCEPT !.from = "create_label_png"]
    /\ UNCHANGED <<encVars, detVars, sendVars, discVars, mainVars>>
    /\ UNCHANGED <<matrices, nameVars, vout>>

\* png_to_bw_matrix on the next image that has no matrix yet.
Convert ==
    /\ Len(matrices) < Len(images)
    /\ matrices' = Append(matrices,
                          png_to_bw_matrix(images[Len(matrices) + 1], job.threshold))
    /\ UNCHANGED <<encVars, detVars, sendVars, discVars, mainVars>>
    /\ UNCHANGED <<job, images, nameVars, vout>>

NextRender ==
    \/ OpenImage
    \/ \E margin_px \in 0..MaxMargin : CreateLabel(margin_px)
    \/ Convert

SpecRender == InitRender /\ [][NextRender]_vars

\* --------------------------- the encoders of the other two modules

\* python_ipp_printer.py, lines 89-90: adv = 0x40 if hi_res else 0x00.
ipp_adv(hi_res) == IF hi_res THEN 64 ELSE 0

\* python_ipp_printer.py, lines 93-94: dots_per_mm = spec["pins"] / spec["mm"]
\* and margin_dots = int(dots_per_mm * feed_mm), with mm and feed_mm in
\* tenths of a millimetre.
ipp_margin_dots(spec, feed_tenths) == TruncDiv(spec.pins * feed_tenths, spec.mm)

\* python_ipp_printer.py, lines 102-110: one graphics row; blank_left =
\* (128 - spec["pins"]) // 2, every truthy pixel sets bit 7 - bitpos % 8 of
\* byte 4 + bitpos // 8, or the IndexError of an index outside the row.
ipp_raster_line(m, spec, col) ==
    LET rows == {y \in 0..(m.height - 1) : m.data[y][col] # 0}
        ipp_blank_left == (128 - spec.pins) \div 2
        byte(y) == PyIndex(4 + ((y + ipp_blank_left) \div 8), 20)
        bit(y) == 7 - ((y + ipp_blank_left) % 8)
        row == [i \in 0..19 |->
                  OrBits(row_header[i], {bit(y) : y \in {yy \in rows : byte(yy) = i}})]
    IN  IF \E y \in rows : byte(y) = -1
        THEN [ok |-> FALSE, bytes |-> <<>>]
        ELSE [ok |-> TRUE, bytes |-> [i \in 1..20 |-> row[i - 1]]]

\* The rows of columns col..w-1 one after the other, or the first failure.
RECURSIVE ipp_rows(_, _, _)
ipp_rows(m, spec, col) ==
    IF col >= m.width THEN [ok |-> TRUE, bytes |-> <<>>]
    ELSE LET line == ipp_raster_line(m, spec, col)
             rest == ipp_rows(m, spec, col + 1)
         IN  IF line.ok /\ rest.ok
             THEN [ok |-> TRUE, bytes |-> line.bytes \o rest.bytes]
             ELSE [ok |-> FALSE, bytes |-> <<>>]

\* python_ipp_printer.py, lines 70-114: the whole stream, or the exception
\* that leaves the function.
ipp_convert_to_brother_raster(m, spec, hi_res, feed_tenths) ==
    LET margin == pack_H(ipp_margin_dots(spec, feed_tenths))
        body == ipp_rows(m, spec, 0)
    IN  IF ~margin.ok THEN [state |-> "raised", bytes |-> <<>>]
        ELSE IF ~body.ok THEN [state |-> "raised", bytes |-> <<>>]
        ELSE [state |-> "returned",
              bytes |-> Zeros(400) \o <<27, 64>> \o <<27, 105, 97, 1>>
                        \o <<27, 105, 122, 132, 0, spec.media_byte, 0, 170, 2, 0, 0, 0, 0>>
                        \o <<27, 105, 77, 64>>
                        \o <<27, 105, 75, ipp_adv(hi_res)>>
                        \o <<27, 105, 100>> \o margin.bytes
                        \o <<77, 2>>
                        \o body.bytes \o <<26>>]

\* png_label_printer.py, lines 176-212: one graphics row; margin is
\* (128 - tape_dots) // 2 for tape_width 6 and 0 otherwise, tape_dots =
\* tape_width * (14 if high_resolution else 7); a pixel equal to 1 sets bit
\* 7 - (y + margin) % 8 of byte (y + margin) // 8 + 4 when that byte is
\* inside the row and is dropped otherwise.
png_raster_line(m, tape_width, high_resolution, col) ==
    LET rows == {y \in 0..(m.height - 1) : m.data[y][col] = 1}
        tape_dots == tape_width * (IF high_resolution THEN 14 ELSE 7)
        raster_width == 128
        margin == IF tape_width = 6 THEN (raster_width - tape_dots) \div 2 ELSE 0
        byte_num(y) == ((y + margin) \div 8) + 4
        bit_offset(y) == (y + margin) % 8
        row == [i \in 0..19 |->
                  OrBits(row_header[i],
                         {7 - bit_offset(y) : y \in {yy \in rows : byte_num(yy) = i}})]
    IN  [i \in 1..20 |-> row[i - 1]]

\* The rows of columns col..w-1 one after the other.
RECURSIVE png_rows(_, _, _, _)
png_rows(m, tape_width, high_resolution, col) ==
    IF col >= m.width THEN <<>>
    ELSE png_raster_line(m, tape_width, high_resolution, col)
         \o png_rows(m, tape_width, high_resolution, col + 1)

\* png_label_printer.py, lines 133-219: the whole stream.
png_convert_to_brother_raster(m, tape_width, high_resolution) ==
    LET advanced_mode == 12 + (IF high_resolution THEN 64 ELSE 0)
        png_margin_dots == 14 * (IF high_resolution THEN 2 ELSE 1)
    IN  [state |-> "returned",
         bytes |-> Zeros(400) \o <<27, 64>> \o <<27, 105, 97, 1>>
                   \o <<27, 105, 122, 132, 0, tape_width, 0, 170, 2, 0, 0, 0, 0>>
                   \o <<27, 105, 77, 64>>
                   \o <<27, 105, 65, 1>>
                   \o <<27, 105, 75, advanced_mode>>
                   \o <<27, 105, 100, png_margin_dots>> \o <<0>>
                   \o <<77, 2>>
                   \o png_rows(m, tape_width, high_resolution, 0) \o <<26>>]

\* Heights of the matrices given to the three encoders: those tried with
\* the 6 mm tape and the 84 rows of the image png_label_printer.py makes.
VariantHeights == Heights("W6") \cup {84}

VariantMatrices ==
    UNION {UNION {{Matrix(w, h, cols) : cols \in [0..(w - 1) -> ColumnPatterns(h)]}
                  : w \in 0..MaxWidth}
           : h \in VariantHeights}

\* One matrix for the 6 mm tape, about to be encoded at high resolution by
\* brother_printer.py (with or without auto-cut, feed 1 mm or 2 mm) and by
\* the other two modules with their defaults.
InitVariants ==
    /\ TAPE_SPECS = TapeCatalogue
    /\ \E auto_cut \in BOOLEAN, feed \in {10, 20} :
          \E m \in VariantMatrices :
             /\ heap = [o \in {1} |-> m]
             /\ args = [c \in {1} |-> Call(1, "W6", TRUE, feed, auto_cut)]
    /\ pc = [c \in {1} |-> "start"]
    /\ data = [c \in {1} |-> <<>>]
    /\ x = [c \in {1} |-> 0]
    /\ ret = [c \in {1} |-> <<>>]
    /\ exc = [c \in {1} |-> "none"]
    /\ DetectIdle /\ SendIdle /\ DiscoverIdle /\ MainIdle
    /\ RenderIdle /\ NameIdle /\ VariantIdle

\* python_ipp_printer.convert_to_brother_raster(matrix, spec) on the matrix
\* and the catalogue entry of caller 1, hi_res and feed_mm at their defaults.
IppConvert ==
    /\ vout["python_ipp_printer"].state = "idle"
    /\ vout' = [vout EXCEPT !["python_ipp_printer"] =
                  ipp_convert_to_brother_raster(heap[args[1].matrix],
                                                TAPE_SPECS[args[1].spec], TRUE, 10)]
    /\ UNCHANGED <<encVars, detVars, sendVars, discVars, mainVars>>
    /\ UNCHANGED <<renderVars, nameVars>>

\* png_label_printer.convert_to_brother_raster(matrix) on the matrix of
\* caller 1, tape_width and high_resolution at their defaults.
PngConvert ==
    /\ vout["png_label_printer"].state = "idle"
    /\ vout' = [vout EXCEPT !["png_label_printer"] =
                  png_convert_to_brother_raster(heap[args[1].matrix], 6, TRUE)]
    /\ UNCHANGED <<encVars, detVars, sendVars, discVars, mainVars>>
    /\ UNCHANGED <<renderVars, nameVars>>

NextVariants ==
    \/ Preamble(1)
    \/ RasterColumn(1)
    \/ Finish(1)
    \/ IppConvert
    \/ PngConvert

SpecVariants == InitVariants /\ [][NextVariants]_vars

\* ------------------------------------------------------------------ claims

\* The profile order and the width patterns of lines 461-472.
ProfileOrder == <<"W3_5", "W6", "W9", "W12", "W18", "W24">>

WidthPatterns ==
    [W3_5 |-> {<<"3", ".", "5">>, <<"3", "_", "5">>},
     W6   |-> {<<"6", "x">>, <<"6", "m", "m">>, <<"_", "6", "x">>},
     W9   |-> {<<"9", "x">>, <<"9", "m", "m">>, <<"_", "9", "x">>},
     W12  |-> {<<"1", "2", "x">>, <<"1", "2", "m", "m">>, <<"_", "1", "2", "x">>},
     W18  |-> {<<"1", "8", "x">>, <<"1", "8", "m", "m">>, <<"_", "1", "8", "x">>},
     W24  |-> {<<"2", "4", "x">>, <<"2", "4", "m", "m">>, <<"_", "2", "4", "x">>}]

\* Descriptor d names profile k, whatever the case of its letters.
Names(d, k) == \E pat \in WidthPatterns[k] : In(pat, lower(d))

Recognizable(d) == \E k \in DOMAIN WidthPatterns : Names(d, k)

\* The first profile, in profile order, that a recognizable descriptor names.
FirstProfile(d) ==
    ProfileOrder[CHOOSE i \in 1..6 :
                    /\ Names(d, ProfileOrder[i])
                    /\ \A j \in 1..(i - 1) : ~Names(d, ProfileOrder[j])]

\* The descriptors of a device in the order they are examined; a
\* media-supported that is no list has no entries.
Examined(dev) ==
    IF dev.execute = "ok" /\ dev.printers = "attrs"
    THEN <<dev.media_ready, dev.media_default>>
            \o (IF dev.supported_is_list THEN dev.media_supported ELSE <<>>)
    ELSE <<>>

Hits(dev) == {i \in 1..Len(Examined(dev)) : Recognizable(Examined(dev)[i])}

FirstHit(dev) == CHOOSE i \in Hits(dev) : \A j \in Hits(dev) : i <= j

Callers == DOMAIN pc

\* What caller c passed, dereferenced.
MatrixOf(c) == heap[args[c].matrix]
SpecOf(c) == TAPE_SPECS[args[c].spec]

\* Length of the cut-mode frame in the stream of caller c.
CutLen(c) == IF args[c].auto_cut THEN 4 ELSE 0

\* Length of everything before the first graphics frame: 400 + 2 + 4 + 13,
\* the cut-mode frame, 4 + 4 + 5 + 2.
PrefixLen(c) == 419 + CutLen(c) + 15

\* Bit of pin position p in the k-th graphics frame (k from 0) of stream s
\* whose graphics frames start after g bytes.
PinBit(s, g, k, p) == BitOf(s[g + 20 * k + 4 + (p \div 8) + 1], 7 - (p % 8))

\* The settings byte of the advanced-mode frame and the dot count of the
\* margin frame in a returned stream.
SettingsByte(c) == ret[c][423 + CutLen(c) + 4]
MarginField(c) == ret[c][428 + CutLen(c) + 3] + 256 * ret[c][428 + CutLen(c) + 4]

\* C1: every returned stream is exactly: 400 zero bytes; 1B 40; 1B 69 61 01;
\* the 13-byte media frame 1B 69 7A 84 00 <media_byte> 00 AA 02 00 00 00 00;
\* 1B 69 4D 40 iff auto_cut; 1B 69 41 01 always; 1B 69 4B <settings>;
\* 1B 69 64 <lo> <hi>; 4D 02; one 20-byte graphics frame per matrix column;
\* and a final 1A, with nothing in between.
C1_FrameOrder ==
    \A c \in Callers : pc[c] = "done" =>
        LET r == ret[c]
            cut == CutLen(c)
            g == 434 + cut
            w == MatrixOf(c).width
        IN  /\ Len(r) = g + 20 * w + 1
            /\ \A i \in 1..Len(r) : r[i] \in Byte
            /\ SubSeq(r, 1, 400) = [i \in 1..400 |-> 0]
            /\ SubSeq(r, 401, 402) = <<27, 64>>
            /\ SubSeq(r, 403, 406) = <<27, 105, 97, 1>>
            /\ SubSeq(r, 407, 419) =
                 <<27, 105, 122, 132, 0, SpecOf(c).media_byte, 0, 170, 2, 0, 0, 0, 0>>
            /\ args[c].auto_cut <=> (cut = 4 /\ SubSeq(r, 420, 423) = <<27, 105, 77, 64>>)
            /\ SubSeq(r, 420 + cut, 423 + cut) = <<27, 105, 65, 1>>
            /\ SubSeq(r, 424 + cut, 426 + cut) = <<27, 105, 75>>
            /\ SubSeq(r, 428 + cut, 430 + cut) = <<27, 105, 100>>
            /\ SubSeq(r, 433 + cut, 434 + cut) = <<77, 2>>
            /\ \A k \in 0..(w - 1) :
                 SubSeq(r, g + 20 * k + 1, g + 20 * k + 4) = <<71, 17, 0, 15>>
            /\ r[Len(r)] = 26

\* C1 witness: a call without auto-cut on a two-column matrix has returned.
C1_Witness ==
    \E c \in Callers :
        pc[c] = "done" /\ ~args[c].auto_cut /\ MatrixOf(c).width = 2

\* C2: the k-th graphics frame of a returned stream is 20 bytes with header
\* 47 11 00 0F and its payload bit at pin position p is set iff
\* p = y + (128 - pins) div 2 for a row y with data[y][k] set; a 1x1 matrix
\* with its bit set on W3_5 with auto-cut has its only set bit at stream byte
\* offset 448, bit 3.
C2_CenteredColumn ==
    \A c \in Callers : pc[c] = "done" =>
        LET m == MatrixOf(c)
            g == PrefixLen(c)
            off == (128 - SpecOf(c).pins) \div 2
        IN  /\ \A k \in 0..(m.width - 1) :
                 /\ SubSeq(ret[c], g + 20 * k + 1, g + 20 * k + 4) = <<71, 17, 0, 15>>
                 /\ \A p \in 0..127 :
                      PinBit(ret[c], g, k, p) = 1
                      <=> (p - off \in 0..(m.height - 1) /\ m.data[p - off][k] # 0)
            /\ Len(ret[c]) = g + 20 * m.width + 1
            /\ (args[c].spec = "W3_5" /\ args[c].auto_cut /\ m.width = 1
                /\ m.height = 1 /\ m.data[0][0] # 0)
               => /\ ret[c][448 + 1] = 2 ^ 3
                  /\ \A i \in (438 + 4 + 1)..(438 + 20) : i # 449 => ret[c][i] = 0

\* C2 witness: the 1x1 scenario on W3_5 with auto-cut has returned.
C2_Witness ==
    \E c \in Callers :
        /\ pc[c] = "done" /\ args[c].spec = "W3_5" /\ args[c].auto_cut
        /\ MatrixOf(c).width = 1 /\ MatrixOf(c).height = 1
        /\ MatrixOf(c).data[0][0] = 1
        /\ ret[c][449] = 8

\* C3: a returned stream is 438 (auto-cut) or 434 (no auto-cut) bytes of
\* prefix, 20 bytes per matrix column and 1 byte, whatever the matrix
\* content, tape, resolution and feed margin.
C3_StreamLength ==
    \A c \in Callers : pc[c] = "done" =>
        Len(ret[c]) = (IF args[c].auto_cut THEN 438 ELSE 434)
                      + 20 * MatrixOf(c).width + 1

\* C3 witness: a 1-column matrix with auto-cut gave 459 bytes.
C3_Witness ==
    \E c \in Callers :
        /\ pc[c] = "done" /\ args[c].auto_cut /\ MatrixOf(c).width = 1
        /\ Len(ret[c]) = 459

\* Some set bit of caller c's matrix has a pin position at or beyond 128.
Overflows(c) ==
    \E y \in 0..(MatrixOf(c).height - 1), k \in 0..(MatrixOf(c).width - 1) :
        /\ MatrixOf(c).data[y][k] # 0
        /\ y + ((128 - SpecOf(c).pins) \div 2) >= 128

\* C4: a call whose matrix has a set bit at a pin position at or beyond 128
\* never returns bytes, and once it has stopped it has raised an error.
C4_OverflowRaises ==
    \A c \in Callers : Overflows(c) =>
        /\ ret[c] = <<>>
        /\ pc[c] # "done"
        /\ pc[c] \notin {"start", "raster"} => (pc[c] = "raised" /\ exc[c] # "none")

\* C4 witness: the raster loop raised IndexError on an overflowing bit.
C4_Witness ==
    \E c \in Callers :
        Overflows(c) /\ pc[c] = "raised" /\ exc[c] = "IndexError"

\* C5 (as claimed): every matrix higher than the 128 pins of the head is
\* rejected and returns no bytes, whatever its bits.
C5_TallMatrixRejected ==
    \A c \in Callers : MatrixOf(c).height > 128 =>
        pc[c] # "done" /\ ret[c] = <<>>

\* C6 (as claimed): bit 3 of the advanced-mode settings byte is set iff
\* auto_cut is false.
C6_NoChainOnlyWithoutCut ==
    \A c \in Callers : pc[c] = "done" =>
        (BitOf(SettingsByte(c), 3) = 1 <=> ~args[c].auto_cut)

\* C6 (amended): bit 3 of the advanced-mode settings byte is set in every
\* returned stream, with auto-cut and without.
C6_NoChainAlwaysSet ==
    \A c \in Callers : pc[c] = "done" => BitOf(SettingsByte(c), 3) = 1

\* C6 witness: a call with auto-cut returned a settings byte with bit 3 set.
C6_Witness ==
    \E c \in Callers :
        pc[c] = "done" /\ args[c].auto_cut /\ BitOf(SettingsByte(c), 3) = 1

\* C7: the settings byte is 0x4C when hi_res and 0x0C otherwise, for every
\* auto_cut: the base 0x0C is always there and bit 6 is set iff hi_res.
C7_SettingsByte ==
    \A c \in Callers : pc[c] = "done" =>
        /\ SettingsByte(c) = (IF args[c].hi_res THEN 76 ELSE 12)
        /\ BitOf(SettingsByte(c), 2) = 1 /\ BitOf(SettingsByte(c), 3) = 1
        /\ BitOf(SettingsByte(c), 6) = 1 <=> args[c].hi_res

\* C7 witness: a standard-resolution call without auto-cut returned 0x0C.
C7_Witness ==
    \E c \in Callers :
        pc[c] = "done" /\ ~args[c].hi_res /\ ~args[c].auto_cut
        /\ SettingsByte(c) = 12

\* C8 (as claimed): the margin dot count is round(feed_mm * dots_per_mm),
\* dots_per_mm = 14 when hi_res and 7 otherwise.
C8_MarginRounded ==
    \A c \in Callers : pc[c] = "done" =>
        MarginField(c) = PyRound((IF args[c].hi_res THEN 14 ELSE 7) * args[c].feed_mm, 10)

\* C8 (amended): the margin dot count d is feed_mm * dots_per_mm with its
\* fraction cut off (truncated toward zero): d <= v < d + 1 for a product
\* v >= 0, and d = 0 for -1 < v < 0.
C8_MarginTruncated ==
    \A c \in Callers : pc[c] = "done" =>
        LET v10 == (IF args[c].hi_res THEN 14 ELSE 7) * args[c].feed_mm
            d == MarginField(c)
        IN  IF v10 >= 0
            THEN 10 * d <= v10 /\ v10 < 10 * (d + 1)
            ELSE d = 0 /\ v10 > -10

\* C8 witness: 0.5 mm at standard resolution returned 3 dots.
C8_Witness ==
    \E c \in Callers :
        pc[c] = "done" /\ ~args[c].hi_res /\ args[c].feed_mm = 5
        /\ MarginField(c) = 3

\* The calls of c1 and c2 have ended and had the same arguments by value.
SameCall(c1, c2) ==
    /\ pc[c1] \in {"done", "raised"} /\ pc[c2] \in {"done", "raised"}
    /\ MatrixOf(c1) = MatrixOf(c2)
    /\ args[c1].spec = args[c2].spec
    /\ args[c1].hi_res = args[c2].hi_res
    /\ args[c1].feed_mm = args[c2].feed_mm
    /\ args[c1].auto_cut = args[c2].auto_cut

\* Two ended calls with the same arguments have the same outcome.
SameOutcome ==
    \A c1 \in Callers, c2 \in Callers : SameCall(c1, c2) =>
        ret[c1] = ret[c2] /\ pc[c1] = pc[c2] /\ exc[c1] = exc[c2]

\* C9: no step of any call changes a matrix, the tape spec it was given or
\* TAPE_SPECS, and after every step two calls with the same matrix, tape
\* spec, hi_res, feed_mm and auto_cut that have ended, however their steps
\* interleaved, returned byte-identical streams.
C9_Deterministic ==
    [][/\ TAPE_SPECS' = TAPE_SPECS
       /\ heap' = heap
       /\ args' = args
       /\ SameOutcome']_vars

\* C9 witness: two callers sharing one matrix object returned the same
\* non-trivial stream for the same options.
C9_Witness ==
    /\ Callers = {1, 2}
    /\ pc[1] = "done" /\ pc[2] = "done"
    /\ args[1] = args[2]
    /\ MatrixOf(1).width >= 1
    /\ ret[1] = ret[2] /\ Len(ret[1]) > 438

\* C10: for every tape of the catalogue the image of create_label_png is as
\* high as the tape has pins, and encoding a matrix of that height with that
\* tape never raises in the raster loop: every bit it sets lies in the
\* window [(128 - pins) div 2, (128 - pins) div 2 + pins), inside 0..127, and
\* the call returns whenever the margin fits its two bytes.
C10_TapeHeightFits ==
    \A c \in Callers :
        LET img == create_label_png(TAPE_SPECS, args[c].spec, 1, 0)
            pins == SpecOf(c).pins
            off == (128 - pins) \div 2
            dots == (IF args[c].hi_res THEN 14 ELSE 7) * args[c].feed_mm
        IN  /\ img.size[2] = pins
            /\ MatrixOf(c).height = img.size[2] =>
                 /\ 0 <= off /\ off + pins <= 128
                 /\ exc[c] # "IndexError"
                 /\ (pc[c] = "raised" => (dots <= -10 \/ dots >= 655360))
                 /\ pc[c] \in {"raster", "done"} =>
                      \A k \in 0..(x[c] - 1), p \in 0..127 :
                          PinBit(data[c], PrefixLen(c), k, p) = 1
                          => (off <= p /\ p < off + pins)

\* C10 witness: a W18 image-high matrix with its last row set was encoded.
C10_Witness ==
    \E c \in Callers :
        /\ pc[c] = "done" /\ args[c].spec = "W18"
        /\ MatrixOf(c).height = 112 /\ MatrixOf(c).width >= 1
        /\ MatrixOf(c).data[111][0] = 1
        /\ PinBit(ret[c], PrefixLen(c), 0, 119) = 1

\* C11: the catalogue has exactly the six identifiers W3_5, W6, W9, W12, W18
\* and W24; width codes are pairwise distinct, pin counts are pairwise
\* distinct, every pin count is at most 128 and so no centering offset is
\* negative.
C11_Catalogue ==
    /\ DOMAIN TAPE_SPECS = {"W3_5", "W6", "W9", "W12", "W18", "W24"}
    /\ \A a \in DOMAIN TAPE_SPECS, b \in DOMAIN TAPE_SPECS :
          a # b => /\ TAPE_SPECS[a].media_byte # TAPE_SPECS[b].media_byte
                   /\ TAPE_SPECS[a].pins # TAPE_SPECS[b].pins
    /\ \A a \in DOMAIN TAPE_SPECS :
          /\ TAPE_SPECS[a].pins <= 128
          /\ (128 - TAPE_SPECS[a].pins) \div 2 >= 0

\* An encoding for the widest tape has finished with a centering offset of 0.
C11_Witness ==
    \E c \in Callers :
        /\ pc[c] = "done"
        /\ args[c].spec = "W24"
        /\ blank_left(SpecOf(c)) = 0

\* C14: when some examined descriptor is recognizable, detect_tape_size
\* returns the first profile in the order W3_5, W6, W9, W12, W18, W24 whose
\* pattern occurs, letters compared without case, in the first recognizable
\* descriptor in the order media-ready, media-default, media-supported
\* entries; and the loop never moves past that descriptor.
C14_FirstMatchWins ==
    (device.execute = "ok" /\ Hits(device) # {}) =>
        /\ dpc = "scan" => media_i <= FirstHit(device)
        /\ dpc # "fallback"
        /\ dpc = "returned" => dret = FirstProfile(Examined(device)[FirstHit(device)])

\* With nothing ready and a default naming no width, the supported entry
\* "18x9mm" decided, and W9 won over W18.
C14_Witness ==
    /\ dpc = "returned"
    /\ device.media_ready = <<>>
    /\ device.media_default = <<"o", "e", "m">>
    /\ device.supported_is_list
    /\ device.media_supported = <<<<"1", "8", "x", "9", "m", "m">>>>
    /\ dret = "W9"

\* C15 as stated: when no examined descriptor is recognizable,
\* detect_tape_size returns None for every device.
C15_NoMatchIsNone ==
    (dpc = "returned" /\ Hits(device) = {}) => dret = "None"

\* C15: when no examined descriptor is recognizable, detect_tape_size does
\* not raise and returns None, except that it returns W6 when both requests
\* succeed and the model name holds "pt-p750w" in any case.
C15_NoMatchIsNoneOrP750W ==
    /\ dpc # "raised"
    /\ (dpc = "returned" /\ Hits(device) = {}) =>
          dret = IF /\ device.execute = "ok"
                    /\ device.printers # "garbage"
                    /\ device.printer = "ok"
                    /\ In(<<"p", "t", "-", "p", "7", "5", "0", "w">>,
                          lower(device.model))
                 THEN "W6" ELSE "None"

\* A PT-P750W whose only descriptor names no width was answered with W6.
C15_Witness ==
    /\ dpc = "returned"
    /\ Hits(device) = {}
    /\ device.media_ready = <<"o", "e", "m">>
    /\ dret = "W6"

\* C19: send_via_ipp issues at most one PRINT_JOB request per call; without
\* an address it raises ValueError and nothing reaches the network;
\* otherwise it ends after exactly one request carrying the stream and the
\* copies, returns True exactly when the answer has status-code 0, and an
\* exception of the exchange leaves the function as it was raised.
C19_OneRequestNoRetry ==
    /\ Len(requests) <= 1
    /\ sargs.printer = "None" =>
          /\ requests = <<>>
          /\ spc \in {"start", "raised"}
          /\ spc = "raised" => sexc = "ValueError"
    /\ (sargs.printer # "None" /\ spc \in {"returned", "raised"}) =>
          /\ Len(requests) = 1
          /\ requests[1].operation = "PRINT_JOB"
          /\ requests[1].host = sargs.printer
          /\ requests[1].copies = sargs.copies
          /\ requests[1].data = sargs.binary
    /\ spc = "returned" =>
          /\ endpoint.error = "none"
          /\ sexc = "none"
          /\ sret <=> (endpoint.has_status /\ endpoint.status = 0)
    /\ (sargs.printer # "None" /\ spc = "raised") =>
          /\ endpoint.error # "none"
          /\ sexc = endpoint.error

\* An answer without a status-code came back after one request: False.
C19_Witness ==
    /\ spc = "returned"
    /\ ~endpoint.has_status
    /\ Len(requests) = 1
    /\ ~sret

\* C20: discover_with_passive_listening never raises; it returns the empty
\* list when zeroconf is unavailable, when the set-up raises, or when no
\* Brother printer was recorded during the wait, and the listener's list
\* otherwise.
C20_DiscoveryNeverRaises ==
    /\ kpc # "raised"
    /\ kpc = "returned" =>
          /\ kret = IF ZEROCONF_AVAILABLE /\ zc = "ok" THEN printers ELSE <<>>
          /\ announced = 0 => kret = <<>>
    /\ (kpc = "returned" /\ ~(ZEROCONF_AVAILABLE /\ zc = "ok")) =>
          printers = <<>>

\* The set-up raised and the call returned the empty list.
C20_Witness ==
    /\ kpc = "returned"
    /\ ZEROCONF_AVAILABLE
    /\ zc = "raise"
    /\ kret = <<>>

\* What main did, by kind.
Did(op) == \E i \in 1..Len(effects) : effects[i].op = op

\* main has an image, a byte stream or a transmission behind it.
Produced ==
    \/ Did("save_png") \/ Did("write_bin") \/ Did("send") \/ Did("print_image")
    \/ pc[1] # "idle"
    \/ requests # <<>>

\* C12: a --tape that is no key of the catalogue ends the process with an
\* error code before anything is detected, rendered, encoded, written or
\* sent, and no tape, the default included, is ever chosen in its place.
C12_UnknownTapeRejected ==
    (margs.tape # "None" /\ margs.tape \notin DOMAIN TAPE_SPECS) =>
        /\ ~Produced
        /\ effects = <<>>
        /\ tape_size = "None"
        /\ mpc \in {"parse", "exit"}
        /\ mpc = "exit" => exit_code > 0

\* The command line named W7 and the process ended with code 2.
C12_Witness ==
    /\ margs.tape = "W7"
    /\ mpc = "exit"
    /\ exit_code = 2

\* tape_size has been resolved: main is past lines 630-642.
TapeResolved == mpc \in {"mode", "encoding", "sending"} \/ (mpc = "exit" /\ tape_size # "None")

\* C13: an explicit tape is used and detect_tape_size is never called;
\* without one, detection (unless disabled) gives the tape, or W6 when it
\* returned nothing; with detection disabled W6 is used.  The tape handed
\* to image creation and to the encoder is a key of the catalogue.
C13_TapePrecedence ==
    /\ margs.tape \in DOMAIN TAPE_SPECS =>
          /\ dpc = "idle" /\ ~Did("detect")
          /\ TapeResolved => tape_size = margs.tape
    /\ (margs.tape = "None" /\ margs.no_auto_detect) =>
          /\ dpc = "idle" /\ ~Did("detect")
          /\ TapeResolved => tape_size = "W6"
    /\ (margs.tape = "None" /\ ~margs.no_auto_detect /\ TapeResolved) =>
          /\ Did("detect") /\ dpc = "returned"
          /\ tape_size = IF dret = "None" THEN "W6" ELSE dret
    /\ TapeResolved => tape_size \in DOMAIN TAPE_SPECS
    /\ pc[1] # "idle" => args[1].spec = tape_size
    /\ Produced => TapeResolved

\* Without --tape the printer reported "_24X", and the label was encoded
\* for W24 and accepted.
C13_Witness ==
    /\ margs.tape = "None"
    /\ dret = "W24"
    /\ pc[1] = "done"
    /\ args[1].spec = "W24"
    /\ mpc = "exit"
    /\ exit_code = 0

\* The query for the tape failed: no connection, a malformed or empty
\* answer, or no media attribute in it.
Failed(dev) ==
    \/ dev.execute = "raise"
    \/ dev.printers \in {"garbage", "absent"}
    \/ /\ dev.media_ready = <<>> /\ dev.media_default = <<>>
       /\ dev.media_supported = <<>>

\* C16 as stated: detect_tape_size never raises, returns None after every
\* failure, and main goes on with W6.
C16_FailureReturnsNone ==
    /\ dpc # "raised"
    /\ (dpc = "returned" /\ Failed(device)) => dret = "None"
    /\ (dpc = "returned" /\ Failed(device) /\ mpc # "detecting") =>
          tape_size = "W6" /\ TapeResolved

\* C16: detect_tape_size never raises; after a failure it returns None,
\* except W6 when the answer was empty or without media attributes and the
\* model query names a PT-P750W; main goes on with W6 and does not abort.
C16_FailureNeverRaises ==
    /\ dpc # "raised"
    /\ (dpc = "returned" /\ dcaught # "none") => dret = "None"
    /\ (dpc = "returned" /\ Failed(device)) =>
          dret = IF /\ dcaught = "none"
                    /\ In(<<"p", "t", "-", "p", "7", "5", "0", "w">>,
                          lower(device.model))
                 THEN "W6" ELSE "None"
    /\ (dpc = "returned" /\ Failed(device) /\ mpc # "detecting") =>
          tape_size = "W6" /\ TapeResolved

\* The printer refused the query, and the label was encoded for W6 and
\* accepted.
C16_Witness ==
    /\ device.execute = "raise"
    /\ dcaught = "execute"
    /\ tape_size = "W6"
    /\ pc[1] = "done"
    /\ mpc = "exit"
    /\ exit_code = 0

\* C17 as stated: with no explicit address and an empty discovery result
\* the environment variable is read next and used when set; the process
\* ends for want of an address only when the variable is unset too.
C17_EnvironmentAfterDiscovery ==
    (falsy(margs.printer) /\ kpc = "returned" /\ kret = <<>>
        /\ mpc # "discovering") =>
        /\ ~falsy(environ) => printer_ip = environ
        /\ (mpc = "exit" /\ tape_size = "None") => falsy(environ)

\* The label was accepted: the endpoint answered status-code 0, or
\* labelprinterkit reported success.
Accepted == (spc = "returned" /\ sret) \/ kit = "success"

\* C18 as stated, for a command line that argparse accepts: the exit code
\* is 0 exactly when the label was accepted and 1 after every failure.
C18_ExitCodeTellsAcceptance ==
    (mpc = "exit" /\ args_tape(TAPE_SPECS, margs) # "error") =>
        exit_code = IF Accepted THEN 0 ELSE 1

\* C26 as stated: a returned stream carries a margin dot count in 0..65535,
\* and a call whose feed margin is negative, or whose dot count does not
\* fit in two bytes, returns no bytes and ends with an error.
C26_MarginRejectedOutOfRange ==
    \A c \in Callers :
        /\ pc[c] = "done" => MarginField(c) \in 0..65535
        /\ (args[c].feed_mm < 0
            \/ margin_dots(args[c].hi_res, args[c].feed_mm) > 65535) =>
              /\ ret[c] = <<>>
              /\ pc[c] # "done"
              /\ pc[c] \notin {"start", "raster"} =>
                    (pc[c] = "raised" /\ exc[c] # "none")

\* The announcement names an IPP service of a Brother printer.
Qualifies(a) ==
    /\ In(<<"_", "i", "p", "p", ".", "_", "t", "c", "p">>, a.service_type)
    /\ In(<<"b", "r", "o", "t", "h", "e", "r">>, lower(a.name))

\* C25: at every step of the listener its list has no two entries with the
\* same (ip, port); the list only grows at its end, by one entry at a time,
\* and the old entries stay as they were; and a new entry carries the first
\* address and the port of the announcement just handled, whose type
\* contains "_ipp._tcp" and whose name contains "brother" in any case.
C25_ListenerList ==
    [][/\ \A i \in 1..Len(printers'), j \in 1..Len(printers') :
             i # j => <<printers'[i].ip, printers'[i].port>>
                        # <<printers'[j].ip, printers'[j].port>>
       /\ Len(printers') >= Len(printers)
       /\ SubSeq(printers', 1, Len(printers)) = printers
       /\ printers' # printers =>
             /\ Len(printers') = Len(printers) + 1
             /\ Qualifies(heard')
             /\ heard'.info.kind = "info"
             /\ heard'.info.addresses # <<>>
             /\ printers'[Len(printers')].ip = inet_ntoa(heard'.info.addresses[1])
             /\ printers'[Len(printers')].port = heard'.info.port]_vars

\* A second Brother announcement with the address and port of the first
\* entry, under another name, was heard and the list still has one entry.
C25_Witness ==
    /\ announced = 2
    /\ Len(printers) = 1
    /\ Qualifies(heard)
    /\ heard.info.kind = "info"
    /\ heard.info.addresses # <<>>
    /\ inet_ntoa(heard.info.addresses[1]) = printers[1].ip
    /\ heard.info.port = printers[1].port
    /\ printers[1].name # remove_all(heard.name,
          <<".", "_", "i", "p", "p", ".", "_", "t", "c", "p", ".", "l", "o",
            "c", "a", "l", ".">>)

\* Number of entries of effects of one kind.
RECURSIVE CountOp(_, _)
CountOp(op, i) ==
    IF i = 0 THEN 0
    ELSE (IF effects[i].op = op THEN 1 ELSE 0) + CountOp(op, i - 1)

\* send_via_ipp has been called by main.
Handed == spc # "idle" \/ Did("send") \/ requests # <<>>

\* C23: in PNG mode main hands the byte stream to send_via_ipp at most once,
\* and only with a non-empty printer address, a tape of the catalogue and the
\* stream the encoder returned, whole (prefix, one frame per column, the
\* final 1A), which is also what was written to the .bin file just before;
\* what goes out in the request is that same stream.
C23_SentOnceWhole ==
    /\ CountOp("send", Len(effects)) <= 1
    /\ CountOp("write_bin", Len(effects)) <= 1
    /\ Len(requests) <= 1
    /\ Handed =>
          /\ margs.mode = "png"
          /\ ~falsy(printer_ip)
          /\ sargs.printer = printer_ip
          /\ tape_size \in DOMAIN TAPE_SPECS
          /\ args[1].spec = tape_size
          /\ pc[1] = "done"
          /\ sargs.binary = ret[1]
          /\ Len(ret[1]) = PrefixLen(1) + 20 * MatrixOf(1).width + 1
          /\ ret[1][Len(ret[1])] = 26
          /\ \E i \in 1..(Len(effects) - 1) :
                /\ effects[i] = Effect("write_bin", sargs.binary)
                /\ effects[i + 1] = Effect("send", sargs.binary)
          /\ \A i \in 1..Len(requests) :
                /\ requests[i].data = ret[1]
                /\ requests[i].host = printer_ip

\* A printer heard while listening was sent the whole stream once and
\* accepted it.
C23_Witness ==
    /\ mpc = "exit"
    /\ exit_code = 0
    /\ margs.mode = "png"
    /\ margs.listen
    /\ Len(requests) = 1
    /\ requests[1].data = ret[1]
    /\ Len(ret[1]) > PrefixLen(1) + 1
    /\ sret

\* main has gone past its range tests: something outside was touched or one
\* of the functions it calls has been started.
Started ==
    \/ effects # <<>>
    \/ kpc # "idle" \/ dpc # "idle" \/ spc # "idle" \/ pc[1] # "idle"
    \/ requests # <<>>
    \/ kit # "unused"
    \/ printer_ip # "None" \/ tape_size # "None"

\* The numeric options are all inside their ranges.
InRange(n) ==
    /\ n.font \in 1..200
    /\ n.margin \in 0..100
    /\ n.copies \in 1..10
    /\ n.listen_timeout \in 1..300

\* C24: with a font size outside 1..200, a margin outside 0..100, copies
\* outside 1..10 or a listen timeout outside 1..300, main never starts
\* discovery, reads the environment variable, queries the device, writes a
\* file or transmits anything, and, on a command line parse_args accepts,
\* the process ends with code 1.
C24_NumbersCheckedFirst ==
    ~InRange(margs.numeric) =>
        /\ ~Started
        /\ ~Did("getenv")
        /\ mpc \in {"parse", "validate", "exit"}
        /\ (mpc = "exit" /\ args_tape(TAPE_SPECS, margs) # "error") => exit_code = 1

\* --listen with a timeout of 301 and a known tape: ended with code 1 and
\* nothing behind it.
C24_Witness ==
    /\ mpc = "exit"
    /\ exit_code = 1
    /\ margs.numeric.listen_timeout = 301
    /\ margs.listen
    /\ margs.tape = "W12"
    /\ ~Started

\* Letters, digits, hyphen and underscore of ASCII.
FileNameChar(ch) ==
    \/ \E k \in 1..26 : LowerCase[k] = ch \/ UpperCase[k] = ch
    \/ \E k \in 1..10 : Digits[k] = ch
    \/ ch \in {"-", "_"}

\* C28: sanitize_filename returns at most 50 characters, each of them an
\* ASCII letter, a digit, a hyphen or an underscore, so no path separator
\* and no dot of the text is left; a second application changes nothing.
C28_SafeName ==
    /\ Len(names) >= 1 =>
          /\ Len(names[1]) <= 50
          /\ \A i \in 1..Len(names[1]) :
                /\ FileNameChar(names[1][i])
                /\ names[1][i] \notin {"/", "."}
    /\ Len(names) = 2 => names[2] = names[1]

\* Positions of the converted images.
Converted == 1..Len(matrices)

\* The gray value of pixel (xx, y) of an image whose bands are equal.
GrayValue(img, xx, y) == img.px[y][xx][1]

\* C21: the matrix of png_to_bw_matrix has the width and the height of the
\* image, exactly height rows of exactly width entries, and data[y][x] is 1
\* if the gray value of pixel (x, y) is strictly below the threshold and 0
\* otherwise; a value equal to the threshold gives 0.
C21_Thresholded ==
    \A i \in Converted :
        LET img == images[i]
            m == matrices[i]
        IN  /\ m.width = img.size[1]
            /\ m.height = img.size[2]
            /\ DOMAIN m.data = 0..(img.size[2] - 1)
            /\ \A y \in DOMAIN m.data :
                  /\ DOMAIN m.data[y] = 0..(img.size[1] - 1)
                  /\ \A xx \in DOMAIN m.data[y] :
                        /\ m.data[y][xx] \in {0, 1}
                        /\ m.data[y][xx] = 1 <=> GrayValue(img, xx, y) < job.threshold
                        /\ GrayValue(img, xx, y) = job.threshold => m.data[y][xx] = 0

\* A 3 by 2 "RGB" image converted with the default threshold: one pixel
\* just below it became 1 and one pixel equal to it became 0.
C21_Witness ==
    /\ Len(matrices) = 1
    /\ job.threshold = 128
    /\ images[1].mode = "RGB"
    /\ images[1].size = <<3, 2>>
    /\ \E y \in 0..1, xx \in 0..2 :
          GrayValue(images[1], xx, y) = 127 /\ matrices[1].data[y][xx] = 1
    /\ \E y \in 0..1, xx \in 0..2 :
          GrayValue(images[1], xx, y) = 128 /\ matrices[1].data[y][xx] = 0

\* Number of entries of a matrix equal to v.
CountOf(m, v) ==
    Cardinality({p \in (0..(m.width - 1)) \X (0..(m.height - 1)) :
                    m.data[p[2]][p[1]] = v})

\* C22: two labels of the same text, font and tape on black tape whose
\* widths differ by twice the difference of their margins give matrices
\* with the same number of entries equal to 1.
C22_SameOnes ==
    (job.from = "create_label_png" /\ ~job.white_tape) =>
        \A i, j \in Converted :
            LET margin_i == (images[i].size[1] - job.glyph.w) \div 2
                margin_j == (images[j].size[1] - job.glyph.w) \div 2
            IN  (/\ margin_i # margin_j
                 /\ matrices[i].width - matrices[j].width = 2 * (margin_i - margin_j))
                => CountOf(matrices[i], 1) = CountOf(matrices[j], 1)

\* The graphics frames and the finalize byte of a stream for a matrix of
\* w columns: its last 20 * w + 1 bytes.
GraphicsOf(stream, w) == SubSeq(stream, Len(stream) - 20 * w, Len(stream))

\* C27: for the same 6 mm matrix at high resolution the three encoders emit
\* the same graphics frames, one of 20 bytes per column in the same order,
\* followed by the same finalize byte.
C27_SameGraphics ==
    (/\ pc[1] = "done"
     /\ vout["python_ipp_printer"].state = "returned"
     /\ vout["png_label_printer"].state = "returned") =>
        LET w == MatrixOf(1).width
            own == GraphicsOf(ret[1], w)
        IN  /\ Len(ret[1]) = PrefixLen(1) + 20 * w + 1
            /\ Len(vout["python_ipp_printer"].bytes) = 434 + 20 * w + 1
            /\ Len(vout["png_label_printer"].bytes) = 438 + 20 * w + 1
            /\ GraphicsOf(vout["python_ipp_printer"].bytes, w) = own
            /\ GraphicsOf(vout["png_label_printer"].bytes, w) = own

====
